---- MODULE Spec2Model ----
(***************************************************************************)
(* rq: the template-string model of rq-core (fragments, fill, rendering,   *)
(* quote stripping, parsing of one value) and the resolution of a request  *)
(* by rq_core::request::execute.                                           *)
(*                                                                         *)
(* Text is a sequence of one-character strings; a variable name is a text. *)
(* A Fragment is a record [kind |-> "Var", name |-> n] or                  *)
(* [kind |-> "RawText", text |-> s]; a TemplateString is the sequence of   *)
(* its fragments; a variable table (HashMap<String, TemplateString>) is a  *)
(* function from the names it defines to their TemplateStrings.            *)
(***************************************************************************)
EXTENDS Integers, Sequences, FiniteSets, TLC

VARIABLES
    pc,       \* position of the operation under study: "ready" or "done"
    tmpl,     \* the TemplateString an operation is applied to
    params,   \* the variable table handed to fill
    input,    \* the source text an operation is applied to
    op,       \* the operation that was applied ("none" before it)
    result,   \* what the operation returned
    req,      \* the HttpRequest handed to execute
    iter,     \* per request instance: the iteration order of its hash maps
    outcome,  \* per request instance: what execute came to (None before)
    request_menu,   \* App.request_menu.items: the requests of the file
    responses,      \* App.responses: one panel state per request
    req_chan,       \* messages buffered in the request channel
    res_chan,       \* messages buffered in the response channel
    ui,             \* position of the UI task (idle, or inside a send)
    worker,         \* position of the task spawned by handle_requests
    messages,       \* MESSAGES, the queue of the message dialog
    message_popup,  \* App.message_popup (None when no message is shown)
    sends,          \* history: the index of every SendRequest handled so far
    source,         \* what the author of the file under parse meant to write
    tui,            \* App: menu index, focus, should_exit, popups, panels
    event_queue,    \* EVENT_QUEUE, the newest event first
    trace           \* history: events emitted and handled, the last one handled

\* The variables of the application, for the runs that do not use them.
appVars == <<request_menu, responses, req_chan, res_chan, ui, worker,
             messages, message_popup, sends>>

\* The variables of file loading, for the runs that do not use them.
fileVars == <<source>>

\* The variables of key and event handling, for the runs that do not use
\* them.
uiVars == <<tui, event_queue, trace>>

vars == <<pc, tmpl, params, input, op, result, req, iter, outcome, appVars,
          fileVars, uiVars>>

\* The variables of request execution, for the runs that do not use them.
execVars == <<req, iter, outcome>>

\* Nothing yet: no operation was applied, no request was given.
None == [kind |-> "None"]

NoExec == req = None /\ iter = <<>> /\ outcome = <<>>

NoApp ==
    /\ request_menu = <<>> /\ responses = <<>> /\ req_chan = <<>> /\ res_chan = <<>>
    /\ ui = None /\ worker = None /\ messages = <<>> /\ message_popup = None
    /\ sends = <<>>

NoFile == source = None

NoUi == tui = None /\ event_queue = <<>> /\ trace = None

\* ------------------------------------------------------------------ bounds

\* Longest fragment list of a generated template.
MaxFrags == 2

\* Longest generated source text, in characters.
MaxLen == 5

\* Nesting of fill calls the stack holds before the process dies.  The real
\* stack holds thousands of frames; any value above the number of variable
\* names is exact here, since a deeper nesting repeats a name and then never
\* ends.
MaxDepth == 4

\* ------------------------------------------------------------ characters

SQ == "'"
DQ == "\""
SP == " "
LB == "{"
RB == "}"

\* ------------------------------------------------------------- fragments

\* Fragment::var
var(name) == [kind |-> "Var", name |-> name]

\* Fragment::raw
raw(value) == [kind |-> "RawText", text |-> value]

\* ---------------------------------------------------------------- results

Ok(s) == [kind |-> "Ok", val |-> s]

\* FillError::from(Variable)
FillError(v) == [kind |-> "FillError", missing_variable |-> v]

\* The process dies of stack exhaustion: nothing is returned.
StackOverflow == [kind |-> "StackOverflow"]

\* ------------------------------------------------------ TemplateString::fill

RECURSIVE fill(_, _, _)
RECURSIVE Collect(_, _, _, _, _)

\* The closure of fill's map: one fragment to Result<String, FillError>.
FillFragment(fragment, parameters, depth) ==
    IF fragment.kind = "Var"
    THEN IF fragment.name \in DOMAIN parameters
         THEN fill(parameters[fragment.name], parameters, depth + 1)
         ELSE FillError(fragment.name)
    ELSE Ok(fragment.text)

\* Variant: fragments are appended in front of what was collected.
Collect_Reversed(fragments, parameters, i, depth, acc) ==
    IF i > Len(fragments)
    THEN Ok(acc)
    ELSE LET r == FillFragment(fragments[i], parameters, depth)
         IN  IF r.kind = "Ok"
             THEN Collect(fragments, parameters, i + 1, depth, r.val \o acc)
             ELSE r

\* Variant: an error does not stop the walk; the last error wins.
Collect_LastError(fragments, parameters, i, depth, acc) ==
    IF i > Len(fragments)
    THEN Ok(acc)
    ELSE LET r    == FillFragment(fragments[i], parameters, depth)
             rest == Collect(fragments, parameters, i + 1, depth,
                             IF r.kind = "Ok" THEN acc \o r.val ELSE acc)
         IN  IF r.kind = "Ok" \/ rest.kind # "Ok" THEN rest ELSE r

\* collect::<Result<String, FillError>>() over the mapped fragments, from
\* fragment i on: strings are appended in order, the first Err ends the walk.
Collect(fragments, parameters, i, depth, acc) ==
    IF i > Len(fragments)
    THEN Ok(acc)
    ELSE LET r == FillFragment(fragments[i], parameters, depth)
         IN  IF r.kind = "Ok"
             THEN Collect(fragments, parameters, i + 1, depth, acc \o r.val)
             ELSE r

\* TemplateString::fill, entered at nesting `depth`.
fill(fragments, parameters, depth) ==
    IF depth > MaxDepth
    THEN StackOverflow
    ELSE Collect(fragments, parameters, 1, depth, <<>>)

\* ------------------------------------------------- inputs of the fill runs

Names == {<<"a">>, <<"b">>, <<"c">>}

FillFrags == {var(n) : n \in Names} \cup {raw(<<"x">>), raw(<<"y">>)}

SeqsUpTo(S, k) == UNION {[1..n -> S] : n \in 0..k}

\* Definitions a table may give to name n: a literal, aliases, mixed ones.
DefSet(n) ==
    { <<raw(<<"v">> \o n)>>,
      <<var(<<"a">>)>>,
      <<var(<<"b">>)>>,
      <<raw(<<"w">>), var(<<"c">>)>>,
      <<var(<<"c">>), var(<<"b">>)>> }

AllDefs == UNION {DefSet(n) : n \in Names}

Tables ==
    UNION { {f \in [D -> AllDefs] : \A n \in D : f[n] \in DefSet(n)}
            : D \in SUBSET Names }

\* --------------------------------------------------- the fill state machine

InitFill ==
    /\ pc = "ready"
    /\ tmpl \in SeqsUpTo(FillFrags, MaxFrags)
    /\ params \in Tables
    /\ input = <<>>
    /\ op = "none"
    /\ result = None
    /\ NoExec
    /\ NoApp
    /\ NoFile
    /\ NoUi

\* ts.fill(&values)
DoFill ==
    /\ pc = "ready"
    /\ result' = fill(tmpl, params, 1)
    /\ pc' = "done"
    /\ op' = "fill"
    /\ UNCHANGED <<tmpl, params, input, execVars, appVars, fileVars, uiVars>>

NextFill == DoFill

SpecFill == InitFill /\ [][NextFill]_vars

\* ------------------------------------------- reference semantics of a table
\* What a table means, computed bottom-up and without recursion through
\* variables: the yardstick the claims about fill are measured against.

\* Names a template refers to directly.
Refs(t) == {t[i].name : i \in {j \in DOMAIN t : t[j].kind = "Var"}}

RECURSIVE Closure(_, _)
\* Names reachable from the set S through the definitions of V.
Closure(S, V) ==
    LET more == S \cup UNION {Refs(V[n]) : n \in S \cap DOMAIN V}
    IN  IF more = S THEN S ELSE Closure(more, V)

\* n's definition refers, maybe through others, to n itself.
OnCycle(n, V) == n \in DOMAIN V /\ n \in Closure(Refs(V[n]), V)

NoCycles(V) == \A n \in DOMAIN V : ~OnCycle(n, V)

RECURSIVE Subst(_, _)
\* The fragments' texts in order, a reference replaced by val[name].
Subst(t, val) ==
    IF t = <<>>
    THEN <<>>
    ELSE (IF Head(t).kind = "Var" THEN val[Head(t).name] ELSE Head(t).text)
         \o Subst(Tail(t), val)

RECURSIVE Values(_, _)
\* The resolved value of every variable of V that has one: a variable gets
\* its value once all the names of its definition have theirs.
Values(V, val) ==
    LET new == {n \in DOMAIN V \ DOMAIN val : Refs(V[n]) \subseteq DOMAIN val}
    IN  IF new = {}
        THEN val
        ELSE Values(V, [n \in DOMAIN val \cup new |->
                          IF n \in DOMAIN val THEN val[n] ELSE Subst(V[n], val)])

Resolved(V) == Values(V, [n \in {} |-> <<>>])

RECURSIVE Scan(_, _, _, _)
\* Left-to-right walk of t from fragment i, given the outcomes `out` already
\* known for some variables: "Ok", the first FillError met, or "Blocked" when
\* the walk meets a defined variable whose outcome is not known.
Scan(t, V, out, i) ==
    IF i > Len(t) THEN [kind |-> "Ok"]
    ELSE IF t[i].kind = "RawText" THEN Scan(t, V, out, i + 1)
    ELSE IF t[i].name \notin DOMAIN V THEN FillError(t[i].name)
    ELSE IF t[i].name \notin DOMAIN out THEN [kind |-> "Blocked"]
    ELSE IF out[t[i].name].kind = "Ok" THEN Scan(t, V, out, i + 1)
    ELSE out[t[i].name]

RECURSIVE Outcomes(_, _)
\* Least fixpoint of Scan over the variables of V. A variable left without
\* an outcome re-enters its own expansion before any absent name is met.
Outcomes(V, out) ==
    LET new == {n \in DOMAIN V \ DOMAIN out : Scan(V[n], V, out, 1).kind # "Blocked"}
    IN  IF new = {}
        THEN out
        ELSE Outcomes(V, [n \in DOMAIN out \cup new |->
                            IF n \in DOMAIN out THEN out[n] ELSE Scan(V[n], V, out, 1)])

\* How the depth-first, left-to-right expansion of t ends.
FirstStop(t, V) == Scan(t, V, Outcomes(V, [n \in {} |-> None]), 1)

\* Index of the first fragment of t that refers to a name absent from V
\* (0 when there is none).
FirstAbsent(t, V) ==
    LET bad == {i \in DOMAIN t : t[i].kind = "Var" /\ t[i].name \notin DOMAIN V}
    IN  IF bad = {} THEN 0 ELSE CHOOSE i \in bad : \A j \in bad : i <= j

\* ------------------------------------------------------------ claims on fill

\* C1 as stated: when every name the template itself contains is present in
\* V and V has no cycles, fill succeeds with the concatenation of the raw
\* texts and the resolved values, in fragment order.
C1_DirectNamesPresent ==
    (pc = "done" /\ Refs(tmpl) \subseteq DOMAIN params /\ NoCycles(params))
        => /\ result.kind = "Ok"
           /\ result.val = Subst(tmpl, Resolved(params))

\* Every name reachable from t through V is defined and none is on a cycle.
Resolvable(t, V) ==
    LET R == Closure(Refs(t), V)
    IN  R \subseteq DOMAIN V /\ \A n \in R : ~OnCycle(n, V)

\* C1 amended: when every name reachable from the template through the
\* definitions of V is present in V and none of them is on a cycle, fill
\* succeeds and returns the raw texts and the resolved values of the
\* referenced variables concatenated in fragment order.
C1_FillConcatenates ==
    (pc = "done" /\ Resolvable(tmpl, params))
        => result = Ok(Subst(tmpl, Resolved(params)))

\* C1 witness: a filled template mixing raw text with a reference whose
\* definition refers to another variable.
C1_Witness ==
    /\ pc = "done"
    /\ Resolvable(tmpl, params)
    /\ Len(tmpl) = 2
    /\ tmpl[1].kind = "RawText"
    /\ tmpl[2].kind = "Var"
    /\ Refs(params[tmpl[2].name]) # {}
    /\ result.kind = "Ok"
    /\ Len(result.val) >= 3

\* C2 as stated: on a template containing a reference absent from V (V free
\* of cycles), fill fails with the FillError of the first such reference in
\* fragment order.
C2_FirstAbsentFragment ==
    (pc = "done" /\ NoCycles(params) /\ FirstAbsent(tmpl, params) # 0)
        => result = FillError(tmpl[FirstAbsent(tmpl, params)].name)

\* C2 amended: fill fails with the FillError naming the first absent name
\* met in the depth-first, left-to-right expansion of the template (the
\* definition of a present variable is expanded in place of its reference),
\* and the error carries no partial string; a FillError always names a
\* variable absent from V, and a template containing an absent reference
\* never fills.
C2_FirstMissingInExpansion ==
    pc = "done" =>
        /\ FirstStop(tmpl, params).kind = "FillError"
               => result = FirstStop(tmpl, params)
        /\ result.kind = "FillError"
               => /\ result.missing_variable \notin DOMAIN params
                  /\ "val" \notin DOMAIN result
        /\ FirstAbsent(tmpl, params) # 0 => result.kind # "Ok"

\* C2 witness: two different absent names are met, the first of them inside
\* the definition of a present variable, and fill named that one.
C2_Witness ==
    /\ pc = "done"
    /\ Len(tmpl) = 2
    /\ tmpl[1].kind = "Var" /\ tmpl[1].name \in DOMAIN params
    /\ tmpl[2].kind = "Var" /\ tmpl[2].name \notin DOMAIN params
    /\ result.kind = "FillError"
    /\ result.missing_variable # tmpl[2].name

\* C3: filling a template whose expansion runs into a variable that refers
\* to itself (a = {{b}}, b = {{a}}) ends with a CyclicVariable error.
C3_CycleFailsWithCyclicVariable ==
    (pc = "done" /\ FirstStop(tmpl, params).kind = "Blocked")
        => result.kind = "CyclicVariable"

\* ------------------------------------------------------------ values::unquote

starts_with(s, c) == s # <<>> /\ s[1] = c

ends_with(s, c) == s # <<>> /\ s[Len(s)] = c

RECURSIVE trim_start_matches(_, _)
trim_start_matches(s, c) ==
    IF starts_with(s, c) THEN trim_start_matches(Tail(s), c) ELSE s

RECURSIVE trim_end_matches(_, _)
trim_end_matches(s, c) ==
    IF ends_with(s, c) THEN trim_end_matches(SubSeq(s, 1, Len(s) - 1), c) ELSE s

\* str::trim_matches: every leading and every trailing c is removed.
trim_matches(s, c) == trim_end_matches(trim_start_matches(s, c), c)

\* Variant: one delimiter is enough (|| for &&).
unquote_EitherEnd(s) ==
    IF starts_with(s, SQ) \/ ends_with(s, SQ) THEN trim_matches(s, SQ)
    ELSE IF starts_with(s, DQ) \/ ends_with(s, DQ) THEN trim_matches(s, DQ)
    ELSE s

\* values::unquote: for c in ['\'', '"'], the first c that both starts and
\* ends the input decides.
unquote(s) ==
    IF starts_with(s, SQ) /\ ends_with(s, SQ) THEN trim_matches(s, SQ)
    ELSE IF starts_with(s, DQ) /\ ends_with(s, DQ) THEN trim_matches(s, DQ)
    ELSE s

\* ------------------------------------------------- the value grammar
\* The pairs pest yields for one value (rule var_def_value of grammar.pest),
\* as the specification of the value grammar describes them. A token is
\* [rule |-> "var", name |-> n] for {{n}} or [rule |-> "text", str |-> run]
\* for a run of characters outside every {{n}}.

IdentChars == {"a", "b", "c"}

RECURSIVE IdentEnd(_, _)
\* First position at or after j that holds no identifier character.
IdentEnd(s, j) ==
    IF j <= Len(s) /\ s[j] \in IdentChars THEN IdentEnd(s, j + 1) ELSE j

\* Length of the {{identifier}} token that starts at position i, 0 if none.
VarTokenLen(s, i) ==
    IF i + 1 <= Len(s) /\ s[i] = LB /\ s[i + 1] = LB
    THEN LET j == IdentEnd(s, i + 2)
         IN  IF j > i + 2 /\ j + 1 <= Len(s) /\ s[j] = RB /\ s[j + 1] = RB
             THEN j + 2 - i
             ELSE 0
    ELSE 0

TextToken(run) == IF run = <<>> THEN <<>> ELSE <<[rule |-> "text", str |-> run]>>

RECURSIVE Tokens(_, _, _)
Tokens(s, i, run) ==
    IF i > Len(s) THEN TextToken(run)
    ELSE LET n == VarTokenLen(s, i)
         IN  IF n > 0
             THEN TextToken(run)
                  \o <<[rule |-> "var", name |-> SubSeq(s, i + 2, i + n - 3)]>>
                  \o Tokens(s, i + n, <<>>)
             ELSE Tokens(s, i + 1, Append(run, s[i]))

\* HttpParser::parse(Rule::var_def_value, s): the inner pairs of the value.
Tokenize(s) == Tokens(s, 1, <<>>)

\* ------------------------------------------- parsing a TemplateString

\* Variant: literal runs are stored as written (as parse_value does).
FromPair_NoUnquote(pairs) ==
    [i \in DOMAIN pairs |->
        IF pairs[i].rule = "var"
        THEN var(pairs[i].name)
        ELSE raw(pairs[i].str)]

\* impl From<Pair> for TemplateString: a var pair becomes Fragment::var of
\* its name, any other pair Fragment::raw of its unquoted text.
FromPair(pairs) ==
    [i \in DOMAIN pairs |->
        IF pairs[i].rule = "var"
        THEN var(pairs[i].name)
        ELSE raw(unquote(pairs[i].str))]

Template(fragments) == [kind |-> "Template", fragments |-> fragments]

\* impl FromStr for TemplateString
from_str(s) == Template(FromPair(Tokenize(s)))

\* ------------------------------------------- rendering a TemplateString

\* impl Display for Variable: name foo gives {{foo}}
VariableToString(name) == <<LB, LB>> \o name \o <<RB, RB>>

RECURSIVE RenderFragments(_, _)
\* The map/collect of Display: every fragment's text, from fragment i on.
RenderFragments(fragments, i) ==
    IF i > Len(fragments) THEN <<>>
    ELSE (IF fragments[i].kind = "Var"
          THEN VariableToString(fragments[i].name)
          ELSE fragments[i].text)
         \o RenderFragments(fragments, i + 1)

\* Variant: quoted only when both ends are spaces (&& for |).
to_string_BothEnds(fragments) ==
    LET s == RenderFragments(fragments, 1)
    IN  IF starts_with(s, SP) /\ ends_with(s, SP) THEN <<DQ>> \o s \o <<DQ>> ELSE s

\* impl Display for TemplateString
to_string(fragments) ==
    LET s == RenderFragments(fragments, 1)
    IN  IF starts_with(s, SP) \/ ends_with(s, SP) THEN <<DQ>> \o s \o <<DQ>> ELSE s

\* Variant: a variable reference counts as nothing.
is_empty_IgnoresVars(fragments) ==
    \/ Len(fragments) = 0
    \/ \A i \in DOMAIN fragments :
          IF fragments[i].kind = "Var" THEN TRUE ELSE fragments[i].text = <<>>

\* TemplateString::is_empty
is_empty(fragments) ==
    \/ Len(fragments) = 0
    \/ \A i \in DOMAIN fragments :
          IF fragments[i].kind = "Var" THEN FALSE ELSE fragments[i].text = <<>>

\* --------------------------------------------- inputs of the value runs

Chars == {"a", SP, SQ, DQ, LB, RB}

Texts == SeqsUpTo(Chars, MaxLen)

Quotes == {SQ, DQ}

\* Inner text of a quoted run: no quote at either end.
InnerTexts == SeqsUpTo({"a", SP}, 2) \cup {<<"a", SQ, "a">>, <<SP, DQ, "a">>}

\* An unquoted run.
PlainRuns == SeqsUpTo({"a", SP}, 2) \ {<<>>}

IdentNames == {<<"a">>, <<"b">>, <<"a", "c">>}

\* quoted run, {{name}}, run
QuotedVarRun(q, s, n, r) == <<q>> \o s \o <<q>> \o VariableToString(n) \o r

StructuredValues ==
    {QuotedVarRun(q, s, n, r) : q \in Quotes, s \in InnerTexts,
                                 n \in IdentNames, r \in PlainRuns}

ValueFrags ==
    { var(<<"a">>), raw(<<>>), raw(<<"a">>), raw(<<SP>>), raw(<<SQ, "a", SQ>>) }

String(s) == [kind |-> "String", val |-> s]

Bool(b) == [kind |-> "Bool", val |-> b]

\* ------------------------------------------- the value state machine

InitValue ==
    /\ pc = "ready"
    /\ op = "none"
    /\ params = [n \in {} |-> <<>>]
    /\ result = None
    /\ NoExec
    /\ NoApp
    /\ NoFile
    /\ NoUi
    /\ \/ input \in Texts /\ tmpl = <<raw(input)>>
       \/ input \in StructuredValues /\ tmpl = <<>>
       \/ input = <<>> /\ tmpl \in SeqsUpTo(ValueFrags, MaxFrags)

\* values::unquote(input)
DoUnquote ==
    /\ pc = "ready"
    /\ pc' = "done"
    /\ op' = "unquote"
    /\ result' = String(unquote(input))
    /\ UNCHANGED <<tmpl, params, input, execVars, appVars, fileVars, uiVars>>

\* input.parse::<TemplateString>()
DoFromStr ==
    /\ pc = "ready"
    /\ pc' = "done"
    /\ op' = "from_str"
    /\ result' = from_str(input)
    /\ UNCHANGED <<tmpl, params, input, execVars, appVars, fileVars, uiVars>>

\* tmpl.to_string()
DoToString ==
    /\ pc = "ready"
    /\ pc' = "done"
    /\ op' = "to_string"
    /\ result' = String(to_string(tmpl))
    /\ UNCHANGED <<tmpl, params, input, execVars, appVars, fileVars, uiVars>>

\* tmpl.is_empty()
DoIsEmpty ==
    /\ pc = "ready"
    /\ pc' = "done"
    /\ op' = "is_empty"
    /\ result' = Bool(is_empty(tmpl))
    /\ UNCHANGED <<tmpl, params, input, execVars, appVars, fileVars, uiVars>>

\* A value is rendered into the input box and the confirmed text is parsed
\* back: tmpl.to_string().parse::<TemplateString>()
DoEdit ==
    /\ pc = "ready"
    /\ pc' = "done"
    /\ op' = "edit"
    /\ result' = from_str(to_string(tmpl))
    /\ UNCHANGED <<tmpl, params, input, execVars, appVars, fileVars, uiVars>>

NextValue == DoUnquote \/ DoFromStr \/ DoToString \/ DoIsEmpty \/ DoEdit

SpecValue == InitValue /\ [][NextValue]_vars

\* ---------------------------------------------- claims on values

IsQuote(c) == c = SQ \/ c = DQ

\* C6: a run of length >= 2 that starts and ends with the same quote
\* character is stored with exactly that one leading and that one trailing
\* character removed; any other run is stored unchanged.
C6_StripsOnePair ==
    (pc = "done" /\ op = "unquote")
        => result.val =
              IF Len(input) >= 2 /\ IsQuote(input[1]) /\ input[Len(input)] = input[1]
              THEN SubSeq(input, 2, Len(input) - 1)
              ELSE input

\* C7: a value made of a quoted run, {{var}} and an unquoted run parses to
\* [Raw(the first run without its quotes), VarRef(var), Raw(second run)]:
\* the quotes are stripped from the run, not from the whole value.
C7_UnquotesPerRun ==
    (pc = "done" /\ op = "from_str")
        => \A q \in Quotes, s \in InnerTexts, n \in IdentNames, r \in PlainRuns :
              input = QuotedVarRun(q, s, n, r)
                  => result = Template(<<raw(s), var(n), raw(r)>>)

\* C7 witness: ' a'{{b}}a was parsed.
C7_Witness ==
    /\ pc = "done"
    /\ op = "from_str"
    /\ input = QuotedVarRun(SQ, <<SP, "a">>, <<"b">>, <<"a">>)
    /\ Len(result.fragments) = 3

AllRaw(t) == \A i \in DOMAIN t : t[i].kind = "RawText"

\* Letters and inner spaces only, and at least one character.
PlainText(s) == s # <<>> /\ \A i \in DOMAIN s : s[i] \in {"a", "b", "c", SP}

\* C8 as stated, on the plainest templates it covers: Raw fragments only,
\* each of letters and spaces, the whole text neither starting nor ending
\* with a space; parsing the rendering gives the template back.
C8_RoundTripAllRaw ==
    (/\ pc = "done"
     /\ op = "edit"
     /\ AllRaw(tmpl)
     /\ \A i \in DOMAIN tmpl : PlainText(tmpl[i].text)
     /\ ~starts_with(to_string(tmpl), SP)
     /\ ~ends_with(to_string(tmpl), SP)
     /\ ~starts_with(RenderFragments(tmpl, 1), SP)
     /\ ~ends_with(RenderFragments(tmpl, 1), SP))
        => result = Template(tmpl)

\* Text s holds a {{name}} token somewhere.
HasVarToken(s) == \E i \in DOMAIN s : VarTokenLen(s, i) > 0

\* A literal that survives rendering and parsing.
PlainLiteral(t) ==
    /\ Len(t) = 1
    /\ t[1].kind = "RawText"
    /\ t[1].text # <<>>
    /\ ~starts_with(t[1].text, SP)
    /\ ~ends_with(t[1].text, SP)
    /\ ~\E c \in Quotes : starts_with(t[1].text, c) /\ ends_with(t[1].text, c)
    /\ ~HasVarToken(t[1].text)

\* C8 amended: a template of exactly one Raw fragment whose text is not
\* empty, neither starts nor ends with a space, does not both start and end
\* with the same quote character and holds no {{name}} token, is what
\* parsing its rendering gives back.
C8_RoundTripPlainLiteral ==
    (pc = "done" /\ op = "edit" /\ PlainLiteral(tmpl))
        => result = Template(tmpl)

\* C8 witness: a literal with an inner space and a leading quote made the
\* round trip.
C8_Witness ==
    /\ pc = "done"
    /\ op = "edit"
    /\ PlainLiteral(tmpl)
    /\ Len(tmpl[1].text) >= 4
    /\ tmpl[1].text[1] = SQ
    /\ \E i \in DOMAIN tmpl[1].text : tmpl[1].text[i] = SP
    /\ result = Template(tmpl)

RECURSIVE Flat(_)
\* The fragments' surface texts joined, last fragment first.
Flat(t) ==
    IF t = <<>> THEN <<>>
    ELSE Flat(SubSeq(t, 1, Len(t) - 1))
         \o (IF t[Len(t)].kind = "Var"
             THEN <<"{", "{">> \o t[Len(t)].name \o <<"}", "}">>
             ELSE t[Len(t)].text)

\* C9: to_string is the fragments in order, VarRef(name) as {{name}} and
\* Raw(text) verbatim, wrapped in one pair of double quotes exactly when
\* that concatenation starts or ends with a space.
C9_RenderQuotesSpaces ==
    (pc = "done" /\ op = "to_string")
        => LET body  == Flat(tmpl)
               n     == Len(body)
               edged == n > 0 /\ (body[1] = " " \/ body[n] = " ")
           IN  /\ edged => result.val = <<"\"">> \o body \o <<"\"">>
               /\ ~edged => result.val = body

\* C9 witness: a rendering that ends with a space without starting with one,
\* holds a variable reference, and came out quoted.
C9_Witness ==
    /\ pc = "done"
    /\ op = "to_string"
    /\ Len(tmpl) = 2
    /\ tmpl[1].kind = "Var"
    /\ tmpl[2] = raw(<<SP>>)
    /\ result.val[1] = DQ
    /\ Len(result.val) = Len(tmpl[1].name) + 7

\* C10: is_empty is true exactly when there is no fragment or every fragment
\* is a Raw of empty text, that is when the fragments render to no text at
\* all; a template holding a VarRef is never empty.
C10_EmptyIffNoText ==
    (pc = "done" /\ op = "is_empty")
        => /\ result.val <=>
                 (tmpl = <<>> \/ \A i \in DOMAIN tmpl : tmpl[i] = raw(<<>>))
           /\ result.val <=> (Flat(tmpl) = <<>>)
           /\ (\E i \in DOMAIN tmpl : tmpl[i].kind = "Var") => ~result.val

\* C10 witness: empty Raw fragments next to a variable reference, found not
\* empty.
C10_Witness ==
    /\ pc = "done"
    /\ op = "is_empty"
    /\ Len(tmpl) = 2
    /\ tmpl[1] = raw(<<>>)
    /\ tmpl[2].kind = "Var"
    /\ result.val = FALSE

\* C10 witness of the other side: two empty Raw fragments, found empty.
C10_WitnessEmpty ==
    /\ pc = "done"
    /\ op = "is_empty"
    /\ tmpl = <<raw(<<>>), raw(<<>>)>>
    /\ result.val = TRUE

\* ------------------------------------------------ resolving a request
\* A hash map is a function from its keys; the order in which one instance
\* of it is iterated is a sequence of its keys, fixed when the instance is
\* built (std's RandomState) and unrelated to the order of another instance
\* with the same entries.

NL == "\n"

Perms(S) ==
    {p \in [1..Cardinality(S) -> S] : \A e \in S : \E i \in DOMAIN p : p[i] = e}

RECURSIVE FillEntries(_, _, _, _, _)
\* iter().map(|(k, v)| Ok((k, v.fill(params)?))).collect::<Result<HashMap>>():
\* the entries are filled in iteration order, the first Err ends the walk.
FillEntries(map, order, parameters, i, acc) ==
    IF i > Len(order)
    THEN Ok(acc)
    ELSE LET v == fill(map[order[i]], parameters, 1)
         IN  IF v.kind = "Ok"
             THEN FillEntries(map, order, parameters, i + 1,
                              [k \in DOMAIN acc \cup {order[i]} |->
                                  IF k = order[i] THEN v.val ELSE acc[k]])
             ELSE v

\* HashTemplateMap::fill
HashTemplateMap_fill(map, order, parameters) ==
    FillEntries(map, order, parameters, 1, [k \in {} |-> <<>>])

\* HeaderValue::from_str refuses a line break (any control character).
ValidHeaderValue(s) == \A i \in DOMAIN s : s[i] # NL

\* .try_into().unwrap() on a map that is no HeaderMap: the task panics.
Panic == [kind |-> "Panic"]

\* HttpHeaders::fill
HttpHeaders_fill(headers, order, parameters) ==
    LET filled == FillEntries(headers, order, parameters, 1, [k \in {} |-> <<>>])
    IN  IF filled.kind # "Ok" THEN filled
        ELSE IF \A k \in DOMAIN filled.val : ValidHeaderValue(filled.val[k])
        THEN filled
        ELSE Panic

\* execute left at a `?` (or died): `done` are the fields resolved before.
Stopped(r, done) == [kind |-> r.kind, error |-> r, filled |-> done, sent |-> FALSE]

\* request.send() was reached with the resolved request; net is what the
\* transport answered, "Response" or "TransportError".
Sent(net, u, q, h, b) ==
    [kind |-> net, filled |-> <<"url", "query", "headers", "body">>, sent |-> TRUE,
     request |-> [url |-> u, query |-> q, headers |-> h, body |-> b]]

\* Variant: the body is resolved right after the url.
execute_BodyFirst(r, parameters, order, net) ==
    LET u == fill(r.url, parameters, 1)
        b == fill(r.body, parameters, 1)
        q == HashTemplateMap_fill(r.query, order.query, parameters)
        h == HttpHeaders_fill(r.headers, order.headers, parameters)
    IN  IF u.kind # "Ok" THEN Stopped(u, <<>>)
        ELSE IF b.kind # "Ok" THEN Stopped(b, <<"url">>)
        ELSE IF q.kind # "Ok" THEN Stopped(q, <<"url", "body">>)
        ELSE IF h.kind # "Ok" THEN Stopped(h, <<"url", "body", "query">>)
        ELSE Sent(net, u.val, q.val, h.val, b.val)

\* rq_core::request::execute: url, query, headers and body are filled in
\* the order of the builder chain, each `?` returning the first Err.
execute(r, parameters, order, net) ==
    LET u == fill(r.url, parameters, 1)
        q == HashTemplateMap_fill(r.query, order.query, parameters)
        h == HttpHeaders_fill(r.headers, order.headers, parameters)
        b == fill(r.body, parameters, 1)
    IN  IF u.kind # "Ok" THEN Stopped(u, <<>>)
        ELSE IF q.kind # "Ok" THEN Stopped(q, <<"url">>)
        ELSE IF h.kind # "Ok" THEN Stopped(h, <<"url", "query">>)
        ELSE IF b.kind # "Ok" THEN Stopped(b, <<"url", "query", "headers">>)
        ELSE Sent(net, u.val, q.val, h.val, b.val)

\* ------------------------------------------- inputs of the execute runs

X == <<"a">>
Y == <<"b">>
Z == <<"c">>

\* x and y are defined or not; z holds a line break.
ExecTables ==
    { [n \in D \cup {Z} |->
          IF n = Z THEN <<raw(<<NL>>)>> ELSE <<raw(<<"v">> \o n)>>]
      : D \in SUBSET {X, Y} }

Maps(keys, values) == UNION {[D -> values] : D \in SUBSET keys}

Requests ==
    [ url     : {<<raw(<<"u">>)>>, <<var(X)>>},
      query   : Maps({"q1", "q2"}, {<<var(X)>>, <<raw(<<"1">>)>>}),
      headers : Maps({"h1", "h2"}, {<<var(X)>>, <<var(Y)>>, <<var(Z)>>}),
      body    : {<<raw(<<"b">>)>>, <<var(Y)>>} ]

Instances == {1, 2}

\* --------------------------------------------- the execute state machine

InitExec ==
    /\ pc = "ready"
    /\ op = "none"
    /\ tmpl = <<>>
    /\ input = <<>>
    /\ result = None
    /\ params \in ExecTables
    /\ req \in Requests
    /\ iter \in [Instances -> [query : Perms(DOMAIN req.query),
                               headers : Perms(DOMAIN req.headers)]]
    /\ outcome = [k \in Instances |-> None]
    /\ NoApp
    /\ NoFile
    /\ NoUi

\* execute(&req, &params).await on instance k of the request.
Execute(k) ==
    /\ outcome[k] = None
    /\ \E net \in {"Response", "TransportError"} :
          outcome' = [outcome EXCEPT ![k] = execute(req, params, iter[k], net)]
    /\ UNCHANGED <<pc, tmpl, params, input, op, result, req, iter, appVars, fileVars, uiVars>>

NextExec == \E k \in Instances : Execute(k)

SpecExec == InitExec /\ [][NextExec]_vars

\* ---------------------------------------------- claims on execute

Fields == <<"url", "query", "headers", "body">>

\* The templates of one field of a request.
FieldTemplates(r, f) ==
    IF f = "url" THEN {r.url}
    ELSE IF f = "query" THEN {r.query[k] : k \in DOMAIN r.query}
    ELSE IF f = "headers" THEN {r.headers[k] : k \in DOMAIN r.headers}
    ELSE {r.body}

\* The templates of field f that V cannot resolve.
Unfillable(r, V, f) == {t \in FieldTemplates(r, f) : FirstStop(t, V).kind # "Ok"}

\* Index of the earliest field, in the order of Fields, holding a template
\* that V cannot resolve (0 when every field resolves).
FirstBadField(r, V) ==
    LET bad == {i \in DOMAIN Fields : Unfillable(r, V, Fields[i]) # {}}
    IN  IF bad = {} THEN 0 ELSE CHOOSE i \in bad : \A j \in bad : i <= j

\* The headers resolve, to something that is no legal header value.
HeadersIllegal(r, V) ==
    /\ Unfillable(r, V, "headers") = {}
    /\ \E k \in DOMAIN r.headers : ~ValidHeaderValue(Subst(r.headers[k], Resolved(V)))

Finished(k) == outcome[k] # None

\* Index of the field at which execute has to stop: the earliest field that
\* does not resolve, or the headers when they resolve to an illegal value
\* and nothing before them fails (0 when nothing stops it).
StopField(r, V) ==
    LET j == FirstBadField(r, V)
    IN  IF HeadersIllegal(r, V) /\ (j = 0 \/ j = 4) THEN 3 ELSE j

Resolution(o) == IF o.sent THEN [resolved |-> o.request] ELSE [stopped |-> o.error]

\* C5: two invocations of execute on the same request and the same variable
\* table come to the same resolution, whatever the iteration order of the
\* query and header maps.
C5_SameOutcome ==
    (Finished(1) /\ Finished(2))
        => Resolution(outcome[1]) = Resolution(outcome[2])

\* ------------------------------------------------ the request-file grammar
\* The pairs pest yields for a whole file (rule file of grammar.pest), as the
\* specification of the request-file grammar describes them.  A pair is
\* [rule |-> r, str |-> its text, inner |-> its inner pairs]; the inner
\* pairs of a value are the tokens of the value grammar.

TAB == "\t"

Blank == {SP, TAB}

WhiteSpace == {SP, TAB, NL}

EmptyMap == [k \in {} |-> <<>>]

Pair(rule, str, inner) == [rule |-> rule, str |-> str, inner |-> inner]

\* A parse error: what was malformed.
ParseError(what) == [kind |-> "Err", error |-> what]

GET == <<"G", "E", "T">>
POST == <<"P", "O", "S", "T">>
PUT == <<"P", "U", "T">>
DELETE == <<"D", "E", "L", "E", "T", "E">>

\* The HTTP-verb tokens.
Methods == {GET, POST, PUT, DELETE}

UpperCase == {"D", "E", "F", "G", "H", "L", "O", "P", "S", "T", "U"}

HTTP == <<"H", "T", "T", "P", "/">>

\* The version literals.
Versions ==
    { HTTP \o <<"0", ".", "9">>, HTTP \o <<"1", ".", "0">>,
      HTTP \o <<"1", ".", "1">>, HTTP \o <<"2", ".", "0">>,
      HTTP \o <<"3", ".", "0">> }

\* The least element of the set S of numbers, d if S is empty.
Least(S, d) == IF S = {} THEN d ELSE CHOOSE j \in S : \A k \in S : j <= k

\* The greatest element of the set S of numbers, d if S is empty.
Greatest(S, d) == IF S = {} THEN d ELSE CHOOSE j \in S : \A k \in S : k <= j

\* First position from i on that holds a character of C (Len(s) + 1 if none).
IndexOf(s, C, i) == Least({j \in i..Len(s) : s[j] \in C}, Len(s) + 1)

\* First position from i on that holds no blank (Len(s) + 1 if none).
SkipBlanks(s, i) == Least({j \in i..Len(s) : s[j] \notin Blank}, Len(s) + 1)

IsBlank(line) == \A i \in DOMAIN line : line[i] \in Blank

\* A value: its text and the tokens of the value grammar.
ValuePair(rule, str) == Pair(rule, str, Tokenize(str))

\* The pair of the query item key=value that starts at i, has its = at e
\* and ends at close.
QueryItem(s, i, e, close) ==
    Pair("query_item", SubSeq(s, i, close),
         <<Pair("query_name", SubSeq(s, i, e - 1), <<>>),
           Pair("query_value", SubSeq(s, e + 1, close), <<>>)>>)

\* Last position of the value that follows the = at e: a quoted string is
\* closed by the quote that opened it (Len(s) + 1 if it never is), any
\* other value ends before a blank or &.
ValueEnd(s, e) ==
    IF e + 1 <= Len(s) /\ s[e + 1] \in {SQ, DQ}
    THEN IndexOf(s, {s[e + 1]}, e + 2)
    ELSE IndexOf(s, {"&"} \cup Blank, e + 1) - 1

RECURSIVE QueryItems(_, _, _)

\* After a query item: a blank or the end of the line ends the query, &
\* starts the next item.
QueryNext(s, next, acc) ==
    IF next > Len(s) \/ s[next] \in Blank
    THEN [kind |-> "Ok", pairs |-> acc, next |-> next]
    ELSE IF s[next] = "&" THEN QueryItems(s, next + 1, acc)
    ELSE ParseError("query")

QueryItemAt(s, i, e, close, acc) ==
    IF close > Len(s) THEN ParseError("quote")
    ELSE QueryNext(s, close + 1, Append(acc, QueryItem(s, i, e, close)))

QueryKeyAt(s, i, e, acc) ==
    IF e > Len(s) \/ s[e] # "=" \/ e = i THEN ParseError("query")
    ELSE QueryItemAt(s, i, e, ValueEnd(s, e), acc)

\* key=value items joined by &, from position i on: the pairs and the
\* position after the last one.
QueryItems(s, i, acc) == QueryKeyAt(s, i, IndexOf(s, {"=", "&"} \cup Blank, i), acc)

\* The inner pairs of a request line: method token ending before sp (none if
\* sp = 0), url from u0 to before u1, query q, version from v0.
RequestLinePairs(s, sp, u0, u1, q, v0) ==
    IF v0 <= Len(s) /\ SubSeq(s, v0, Len(s)) \notin Versions
    THEN ParseError("version")
    ELSE [kind |-> "Ok",
          pairs |->
             (IF sp > 0 THEN <<Pair("method", SubSeq(s, 1, sp - 1), <<>>)>> ELSE <<>>)
             \o <<ValuePair("url", SubSeq(s, u0, u1 - 1))>>
             \o (IF q.pairs # <<>>
                 THEN <<Pair("query", SubSeq(s, u1, q.next - 1), q.pairs)>>
                 ELSE <<>>)
             \o (IF v0 <= Len(s)
                 THEN <<Pair("version", SubSeq(s, v0, Len(s)), <<>>)>>
                 ELSE <<>>)]

RequestLineVersion(s, sp, u0, u1, q) ==
    IF q.kind # "Ok" THEN q
    ELSE RequestLinePairs(s, sp, u0, u1, q, SkipBlanks(s, q.next))

RequestLineQuery(s, sp, u0, u1) ==
    IF u1 = u0 THEN ParseError("url")
    ELSE RequestLineVersion(s, sp, u0, u1,
             IF u1 <= Len(s) /\ s[u1] = "?"
             THEN QueryItems(s, u1 + 1, <<>>)
             ELSE [kind |-> "Ok", pairs |-> <<>>, next |-> u1])

RequestLineUrl(s, sp, u0) ==
    RequestLineQuery(s, sp, u0, IndexOf(s, {"?"} \cup Blank, u0))

\* sp is the first blank of the line: the word before it is the method
\* token if it is written in capitals.
RequestLineMethod(s, sp) ==
    IF sp <= Len(s) /\ sp > 1 /\ \A i \in 1..(sp - 1) : s[i] \in UpperCase
    THEN IF SubSeq(s, 1, sp - 1) \in Methods
         THEN RequestLineUrl(s, sp, SkipBlanks(s, sp))
         ELSE ParseError("method")
    ELSE RequestLineUrl(s, 0, 1)

\* The request line: [method blank] url [?query] [blank version].  A first
\* word in capitals followed by a blank is the method token; the url ends at
\* a blank, at ? or at the end of the line.
RequestLine(s) == RequestLineMethod(s, IndexOf(s, Blank, 1))

RECURSIVE Lines(_, _)

\* The line from i to before e, and the lines after the line break at e.
LineTo(s, i, e) ==
    IF e > Len(s) THEN <<SubSeq(s, i, Len(s))>>
    ELSE <<SubSeq(s, i, e - 1)>> \o Lines(s, e + 1)

\* The lines of s from position i on, without their line breaks.
Lines(s, i) == LineTo(s, i, IndexOf(s, {NL}, i))

RECURSIVE Join(_)
\* The lines joined by line breaks.
Join(lines) ==
    IF lines = <<>> THEN <<>>
    ELSE IF Len(lines) = 1 THEN lines[1]
    ELSE lines[1] \o <<NL>> \o Join(Tail(lines))

\* The positions of the lines that are not blank.
FullLines(lines) == {i \in DOMAIN lines : ~IsBlank(lines[i])}

\* The lines without the blank lines at both ends.
StripBlankLines(lines) ==
    SubSeq(lines, Least(FullLines(lines), 1), Greatest(FullLines(lines), 0))

\* The line without the blanks at its start.
StripLeft(line) == SubSeq(line, SkipBlanks(line, 1), Len(line))

\* A line that continues the query: indentation, then ? or &.
IsContinuation(line) ==
    SkipBlanks(line, 1) <= Len(line) /\ line[SkipBlanks(line, 1)] \in {"?", "&"}

RECURSIVE LogicalLine(_, _, _)
\* The request line with its query continuation lines, from line i on.
LogicalLine(lines, i, acc) ==
    IF i <= Len(lines) /\ IsContinuation(lines[i])
    THEN LogicalLine(lines, i + 1, acc \o StripLeft(lines[i]))
    ELSE [line |-> acc, next |-> i]

HeaderAt(line, c) ==
    IF c > Len(line) \/ c = 1
    THEN ParseError("header")
    ELSE [kind |-> "Ok",
          pair |-> Pair("header", line,
                        <<Pair("header_name", SubSeq(line, 1, c - 1), <<>>),
                          ValuePair("header_value",
                                    SubSeq(line, SkipBlanks(line, c + 1),
                                           Len(line)))>>)]

\* One header line, key: value.
Header(line) == HeaderAt(line, IndexOf(line, {":"}, 1))

\* The first of the results that is an error, Ok of their pairs if none is.
AllOk(results) ==
    IF \E i \in DOMAIN results : results[i].kind # "Ok"
    THEN results[Least({i \in DOMAIN results : results[i].kind # "Ok"}, 0)]
    ELSE [kind |-> "Ok", pairs |-> [i \in DOMAIN results |-> results[i].pair]]

\* The pair of a request: the pairs of its request line, its headers and
\* its body.
RequestPair(lines, rl, hs, from, stop, body) ==
    IF rl.kind # "Ok" THEN rl
    ELSE IF hs.kind # "Ok" THEN hs
    ELSE [kind |-> "Ok",
          pair |-> Pair("request", Join(lines),
                        rl.pairs
                        \o (IF hs.pairs # <<>>
                            THEN <<Pair("headers",
                                        Join(SubSeq(lines, from, stop - 1)),
                                        hs.pairs)>>
                            ELSE <<>>)
                        \o (IF body # <<>> THEN <<ValuePair("body", body)>> ELSE <<>>))]

\* The header lines end before the first blank line, at stop; the body is
\* what follows it.
RequestHeaders(lines, ll, stop) ==
    RequestPair(lines, RequestLine(ll.line),
                AllOk([i \in 1..(stop - ll.next) |-> Header(lines[ll.next + i - 1])]),
                ll.next, stop,
                Join(StripBlankLines(SubSeq(lines, stop + 1, Len(lines)))))

RequestLines(lines, ll) ==
    RequestHeaders(lines, ll,
                   Least({i \in ll.next..Len(lines) : IsBlank(lines[i])},
                         Len(lines) + 1))

\* The lines of one request block: the request line, the header lines up
\* to a blank line, the body after it.
Request(lines) == RequestLines(lines, LogicalLine(lines, 2, lines[1]))

VarDefAt(line, e, eq) ==
    IF e = 2 \/ eq > Len(line) \/ line[eq] # "="
       \/ \E i \in 2..(e - 1) : line[i] \notin IdentChars
    THEN ParseError("var_def")
    ELSE [kind |-> "Ok",
          pair |-> Pair("var_def", line,
                        <<Pair("var_def_name", SubSeq(line, 2, e - 1), <<>>),
                          ValuePair("var_def_value",
                                    SubSeq(line, SkipBlanks(line, eq + 1),
                                           Len(line)))>>)]

VarDefName(line, e) == VarDefAt(line, e, SkipBlanks(line, e))

\* One line of the variable block, @name = value.
VarDef(line) == VarDefName(line, IndexOf(line, {"="} \cup Blank, 2))

\* The separator line.
DELIM == <<"#", "#", "#">>

RECURSIVE Blocks(_, _, _)
\* The lines cut at the separator lines; cur is the block being read.
Blocks(lines, i, cur) ==
    IF i > Len(lines) THEN <<cur>>
    ELSE IF lines[i] = DELIM THEN <<cur>> \o Blocks(lines, i + 1, <<>>)
    ELSE Blocks(lines, i + 1, Append(cur, lines[i]))

RECURSIVE NonEmpty(_)
\* The blocks that hold a line that is not blank, without the blank lines
\* around them.
NonEmpty(blocks) ==
    IF blocks = <<>> THEN <<>>
    ELSE (IF FullLines(Head(blocks)) = {} THEN <<>>
          ELSE <<StripBlankLines(Head(blocks))>>)
         \o NonEmpty(Tail(blocks))

RECURSIVE Delimited(_)
\* The request pairs with a DELIM pair between two of them.
Delimited(requests) ==
    IF Len(requests) <= 1 THEN requests
    ELSE <<Head(requests), Pair("DELIM", DELIM, <<>>)>> \o Delimited(Tail(requests))

\* The pair of a file: its variable block, its requests, the end of input.
FilePair(s, defs, reqs) ==
    IF defs.kind # "Ok" THEN defs
    ELSE IF reqs.kind # "Ok" THEN reqs
    ELSE [kind |-> "Ok",
          pair |-> Pair("file", s,
                        (IF defs.pairs # <<>>
                         THEN <<Pair("var_block", <<>>, defs.pairs),
                                Pair("DELIM", DELIM, <<>>)>>
                         ELSE <<>>)
                        \o Delimited(reqs.pairs)
                        \o <<Pair("EOI", <<>>, <<>>)>>)]

FileRequests(blocks) == AllOk([i \in DOMAIN blocks |-> Request(blocks[i])])

\* The first nv lines are the variable block.
FileBlocks(s, lines, nv) ==
    FilePair(s, AllOk([i \in 1..nv |-> VarDef(lines[i])]),
             FileRequests(NonEmpty(Blocks(lines, nv + 1, <<>>))))

FileLines(s, lines) ==
    FileBlocks(s, lines,
               Least({i \in DOMAIN lines : lines[i] = <<>> \/ lines[i][1] # "@"},
                     Len(lines) + 1) - 1)

\* HttpParser::parse(Rule::file, s): the variable block (the leading lines
\* that start with @), then the request blocks between separator lines;
\* the first malformed line fails the whole parse.
File(s) == FileLines(s, Lines(s, 1))

\* ------------------------------------------------- building the HttpFile

\* Variant: a variable pair is stored as the text it was written as.
parse_value_AllRaw(pair) ==
    [i \in DOMAIN pair.inner |->
        IF pair.inner[i].rule = "var"
        THEN raw(VariableToString(pair.inner[i].name))
        ELSE raw(pair.inner[i].str)]

\* parse_value: a variable pair becomes Fragment::Var of its name, any other
\* pair Fragment::RawText of its text as written.
parse_value(pair) ==
    [i \in DOMAIN pair.inner |->
        IF pair.inner[i].rule = "var"
        THEN var(pair.inner[i].name)
        ELSE raw(pair.inner[i].str)]

Method(name) == [kind |-> "Method", name |-> name]

\* Method::default()
Method_default == Method("GET")

\* Method::try_from(&str): the standard verbs, any other token an extension.
Method_try_from(s) ==
    CASE s = GET -> Method("GET")
      [] s = POST -> Method("POST")
      [] s = PUT -> Method("PUT")
      [] s = DELETE -> Method("DELETE")
      [] OTHER -> [kind |-> "Method", name |-> "extension", token |-> s]

Version(name) == [kind |-> "Version", name |-> name]

\* Version::default()
Version_default == Version("HTTP_11")

\* http_version_from_str; any other text reaches unreachable!().
http_version_from_str(s) ==
    CASE s = HTTP \o <<"0", ".", "9">> -> Version("HTTP_09")
      [] s = HTTP \o <<"1", ".", "0">> -> Version("HTTP_10")
      [] s = HTTP \o <<"1", ".", "1">> -> Version("HTTP_11")
      [] s = HTTP \o <<"2", ".", "0">> -> Version("HTTP_2")
      [] s = HTTP \o <<"3", ".", "0">> -> Version("HTTP_3")
      [] OTHER -> Panic

\* HashMap::insert
Insert(map, k, v) == [x \in DOMAIN map \cup {k} |-> IF x = k THEN v ELSE map[x]]

\* Variant: the value is kept as written.
query_value_AsWritten(value) == value

\* The value of a query pair: the first of ' and " that both starts and ends
\* it is trimmed off.
query_value(value) ==
    IF starts_with(value, SQ) /\ ends_with(value, SQ) THEN trim_matches(value, SQ)
    ELSE IF starts_with(value, DQ) /\ ends_with(value, DQ) THEN trim_matches(value, DQ)
    ELSE value

RECURSIVE query_from(_, _, _)

\* Variant: only the first pair of the query is collected.
query_from_FirstOnly(items, i, map) ==
    IF i > Len(items) \/ i > 1 THEN map
    ELSE query_from(items, i + 1,
                    Insert(map, items[i].inner[1].str,
                           query_value(items[i].inner[2].str)))

\* The query pairs collected into a HashMap<String, String>, from pair i on.
query_from(items, i, map) ==
    IF i > Len(items) THEN map
    ELSE query_from(items, i + 1,
                    Insert(map, items[i].inner[1].str,
                           query_value(items[i].inner[2].str)))

RECURSIVE HttpHeaders_from(_, _, _)
\* impl From<Pairs> for HttpHeaders, from pair i on.
HttpHeaders_from(pairs, i, map) ==
    IF i > Len(pairs) THEN map
    ELSE HttpHeaders_from(pairs, i + 1,
                          Insert(map, pairs[i].inner[1].str,
                                 parse_value(pairs[i].inner[2])))

\* Variant: a request line without a method token gives POST.
HttpRequest_from_DefaultPost(request) ==
    LET ps   == request.inner
        has(i, rule) == i <= Len(ps) /\ ps[i].rule = rule
        m    == IF has(1, "method") THEN 1 ELSE 0
        q    == IF has(m + 2, "query") THEN 1 ELSE 0
        v    == IF has(m + q + 2, "version") THEN 1 ELSE 0
        h    == IF has(m + q + v + 2, "headers") THEN 1 ELSE 0
        b    == m + q + v + h + 2
    IN  [method  |-> IF m = 1 THEN Method_try_from(ps[1].str) ELSE Method("POST"),
         url     |-> parse_value(ps[m + 1]),
         query   |-> IF q = 1 THEN query_from(ps[m + 2].inner, 1, EmptyMap)
                     ELSE EmptyMap,
         version |-> IF v = 1 THEN http_version_from_str(ps[m + q + 2].str)
                     ELSE Version_default,
         headers |-> IF h = 1 THEN HttpHeaders_from(ps[m + q + v + 2].inner, 1, EmptyMap)
                     ELSE EmptyMap,
         body    |-> IF b <= Len(ps) THEN parse_value(ps[b]) ELSE <<>>]

\* impl From<Pair> for HttpRequest: the inner pairs are taken in order, an
\* optional one only if it is next (next_if), its default otherwise.
HttpRequest_from(request) ==
    LET ps   == request.inner
        has(i, rule) == i <= Len(ps) /\ ps[i].rule = rule
        m    == IF has(1, "method") THEN 1 ELSE 0
        q    == IF has(m + 2, "query") THEN 1 ELSE 0
        v    == IF has(m + q + 2, "version") THEN 1 ELSE 0
        h    == IF has(m + q + v + 2, "headers") THEN 1 ELSE 0
        b    == m + q + v + h + 2
    IN  [method  |-> IF m = 1 THEN Method_try_from(ps[1].str) ELSE Method_default,
         url     |-> parse_value(ps[m + 1]),
         query   |-> IF q = 1 THEN query_from(ps[m + 2].inner, 1, EmptyMap)
                     ELSE EmptyMap,
         version |-> IF v = 1 THEN http_version_from_str(ps[m + q + 2].str)
                     ELSE Version_default,
         headers |-> IF h = 1 THEN HttpHeaders_from(ps[m + q + v + 2].inner, 1, EmptyMap)
                     ELSE EmptyMap,
         body    |-> IF b <= Len(ps) THEN parse_value(ps[b]) ELSE <<>>]

RECURSIVE parse_def_block(_, _, _)
\* parse_def_block: name and value of every definition, from pair i on; the
\* value is built by impl From<Pair> for TemplateString.
parse_def_block(defs, i, map) ==
    IF i > Len(defs) THEN map
    ELSE parse_def_block(defs, i + 1,
                         Insert(map, defs[i].inner[1].str,
                                FromPair(defs[i].inner[2].inner)))

HttpFile(requests, variables) == [requests |-> requests, variables |-> variables]

RECURSIVE HttpFile_from(_, _, _)

\* Variant: the requests are collected in front of the earlier ones.
HttpFile_from_Prepend(pairs, i, file) ==
    IF i > Len(pairs) THEN file
    ELSE LET pair == pairs[i]
         IN  IF pair.rule = "request"
             THEN HttpFile_from(pairs, i + 1,
                      HttpFile(<<HttpRequest_from(pair)>> \o file.requests,
                               file.variables))
             ELSE IF pair.rule = "var_block"
             THEN HttpFile_from(pairs, i + 1,
                      HttpFile(file.requests,
                               parse_def_block(pair.inner, 1, file.variables)))
             ELSE IF pair.rule \in {"EOI", "DELIM"}
             THEN HttpFile_from(pairs, i + 1, file)
             ELSE Panic

\* impl From<Pair> for HttpFile: the loop over the inner pairs of the file,
\* from pair i on; the variables of a var_block are the ones parse_def_block
\* builds.
HttpFile_from(pairs, i, file) ==
    IF i > Len(pairs) THEN file
    ELSE LET pair == pairs[i]
         IN  IF pair.rule = "request"
             THEN HttpFile_from(pairs, i + 1,
                      HttpFile(Append(file.requests, HttpRequest_from(pair)),
                               file.variables))
             ELSE IF pair.rule = "var_block"
             THEN HttpFile_from(pairs, i + 1,
                      HttpFile(file.requests,
                               parse_def_block(pair.inner, 1, file.variables)))
             ELSE IF pair.rule \in {"EOI", "DELIM"}
             THEN HttpFile_from(pairs, i + 1, file)
             ELSE Panic

\* str::trim_start
trim_start(s) ==
    SubSeq(s, Least({j \in DOMAIN s : s[j] \notin WhiteSpace}, Len(s) + 1), Len(s))

\* Variant: an error of the grammar gives the HttpFile of an empty file.
parse_Lenient(s) ==
    LET r == File(trim_start(s))
    IN  IF r.kind # "Ok"
        THEN Ok(HttpFile(<<>>, EmptyMap))
        ELSE Ok(HttpFile_from(r.pair.inner, 1, HttpFile(<<>>, EmptyMap)))

\* parse: the `?` returns the error of the grammar before any HttpFile is
\* built.
parse(s) ==
    LET r == File(trim_start(s))
    IN  IF r.kind # "Ok"
        THEN r
        ELSE Ok(HttpFile_from(r.pair.inner, 1, HttpFile(<<>>, EmptyMap)))

\* ------------------------------------------------------- the application
\* The UI task (App::on_event, App::update) and the task spawned by
\* handle_requests, joined by the request channel and the response channel.
\* Request indices are the positions 1..Len(request_menu), one more than the
\* usize indices of the program.

\* Requests of the file.
NReq == 2

\* SendRequest events handled in one run.
MaxSends == 4

\* channel::<(HttpRequest, usize)>(1)
ReqCapacity == 1

\* channel::<(Response, usize)>(1)
ResCapacity == 1

\* The variables of the file: x is defined, y is not, z holds a line break.
AppParams == [n \in {X, Z} |-> IF n = Z THEN <<raw(<<NL>>)>> ELSE <<raw(<<"v">>)>>]

\* A request that resolves, one whose url names an undefined variable, one
\* with a header value that resolves to a line break.
MenuRequests ==
    { [url |-> <<var(X)>>, query |-> EmptyMap, headers |-> EmptyMap,
       body |-> <<raw(<<"b">>)>>],
      [url |-> <<var(Y)>>, query |-> EmptyMap, headers |-> EmptyMap,
       body |-> <<>>],
      [url |-> <<raw(<<"u">>)>>, query |-> EmptyMap,
       headers |-> [h \in {"h1"} |-> <<var(Z)>>], body |-> <<>>] }

\* response_panel::State
Empty == [state |-> "Empty"]
Loading == [state |-> "Loading"]
Received(response) == [state |-> "Received", response |-> response]

\* Response::from_reqwest: the response to the request of send number seq.
Response(seq) == [kind |-> "Response", seq |-> seq]

\* Message::Error(e.to_string())
Error(e) == [kind |-> "Error", text |-> e]

Idle == [pc |-> "idle"]

\* The worker task ended by a panic: both its channel ends are dropped.
Panicked == [pc |-> "panicked"]

\* The receiver of the request channel is gone.
ReqClosed == worker = Panicked

\* MessageDialog::push_message: MESSAGES.push_back(content)
push_message(queue, content) == Append(queue, content)

\* Variant: the newest message of the queue is taken.
pop_message_Newest(queue) ==
    [content |-> queue[Len(queue)], rest |-> SubSeq(queue, 1, Len(queue) - 1)]

\* MessageDialog::pop_message on a queue that is not empty:
\* MESSAGES.pop_front(), the message taken and the queue left.
pop_message(queue) == [content |-> Head(queue), rest |-> Tail(queue)]

\* App::new
InitApp ==
    /\ pc = "ready" /\ op = "none" /\ tmpl = <<>> /\ input = <<>> /\ result = None
    /\ NoExec
    /\ NoFile
    /\ NoUi
    /\ params = AppParams
    /\ request_menu \in [1..NReq -> MenuRequests]
    /\ responses = [i \in 1..NReq |-> Empty]
    /\ req_chan = <<>>
    /\ res_chan = <<>>
    /\ ui = Idle
    /\ worker = [pc |-> "recv"]
    /\ messages = <<>>
    /\ message_popup = None
    /\ sends = <<>>

\* App::on_event(Event::SendRequest(idx)), up to the point where send
\* completes or has to wait for room in the request channel.
OnEventSendRequest(idx) ==
    /\ ui = Idle
    /\ Len(sends) < MaxSends
    /\ sends' = Append(sends, idx)
    /\ responses' = [responses EXCEPT ![idx] = Loading]
    /\ LET item == [req |-> request_menu[idx], i |-> idx, seq |-> Len(sends) + 1]
       IN  IF ReqClosed
           THEN /\ messages' = push_message(messages, Error("SendError"))
                /\ UNCHANGED <<req_chan, ui>>
           ELSE IF Len(req_chan) < ReqCapacity
           THEN /\ req_chan' = Append(req_chan, item)
                /\ UNCHANGED <<messages, ui>>
           ELSE /\ ui' = [pc |-> "send", item |-> item]
                /\ UNCHANGED <<messages, req_chan>>
    /\ UNCHANGED <<pc, tmpl, params, input, op, result, execVars, fileVars, uiVars,
                   request_menu, res_chan, worker, message_popup>>

\* The send awaited by on_event completes: there is room in the request
\* channel, or its receiver was dropped and the error becomes a message.
SendCompletes ==
    /\ ui.pc = "send"
    /\ \/ /\ ReqClosed
          /\ messages' = push_message(messages, Error("SendError"))
          /\ UNCHANGED req_chan
       \/ /\ ~ReqClosed
          /\ Len(req_chan) < ReqCapacity
          /\ req_chan' = Append(req_chan, ui.item)
          /\ UNCHANGED messages
    /\ ui' = Idle
    /\ UNCHANGED <<pc, tmpl, params, input, op, result, execVars, fileVars, uiVars,
                   request_menu, responses, res_chan, worker, message_popup, sends>>

\* App::update
Update ==
    /\ ui = Idle
    /\ IF res_chan # <<>>
       THEN /\ responses' = [responses EXCEPT ![Head(res_chan).i] =
                                 Received(Head(res_chan).res)]
            /\ res_chan' = Tail(res_chan)
       ELSE UNCHANGED <<responses, res_chan>>
    /\ IF message_popup = None /\ messages # <<>>
       THEN /\ message_popup' = pop_message(messages).content
            /\ messages' = pop_message(messages).rest
       ELSE UNCHANGED <<message_popup, messages>>
    /\ UNCHANGED <<pc, tmpl, params, input, op, result, execVars, fileVars, uiVars,
                   request_menu, req_chan, ui, worker, sends>>

\* App::on_key_event while a message popup is shown: the popup consumes the
\* key and is closed.
OnKeyEvent ==
    /\ ui = Idle
    /\ message_popup # None
    /\ message_popup' = None
    /\ UNCHANGED <<pc, tmpl, params, input, op, result, execVars, fileVars, uiVars,
                   request_menu, responses, req_chan, res_chan, ui, worker,
                   messages, sends>>

\* handle_requests: req_rx.recv().await returns the next request.
WorkerRecv ==
    /\ worker.pc = "recv"
    /\ req_chan # <<>>
    /\ worker' = [pc |-> "execute", item |-> Head(req_chan)]
    /\ req_chan' = Tail(req_chan)
    /\ UNCHANGED <<pc, tmpl, params, input, op, result, execVars, fileVars, uiVars,
                   request_menu, responses, res_chan, ui, messages,
                   message_popup, sends>>

\* What the worker is left with after execute came to o on item.
AfterExecute(item, o) ==
    IF o.kind = "Response"
    THEN [pc |-> "send", item |-> item, res |-> Response(item.seq)]
    ELSE IF o.kind \in {"FillError", "TransportError"}
    THEN [pc |-> "recv"]
    ELSE Panicked

\* handle_requests: rq_core::request::execute(&req).await and the match on
\* its result; an Err is pushed as a message, a panic ends the task.
WorkerExecute ==
    /\ worker.pc = "execute"
    /\ \E net \in {"Response", "TransportError"} :
          LET order == [query |-> <<>>,
                        headers |-> CHOOSE o \in Perms(DOMAIN worker.item.req.headers) : TRUE]
              o == execute(worker.item.req, params, order, net)
          IN  /\ worker' = AfterExecute(worker.item, o)
              /\ messages' = IF o.kind \in {"FillError", "TransportError"}
                             THEN push_message(messages, Error(o.kind))
                             ELSE messages
              /\ req_chan' = IF AfterExecute(worker.item, o) = Panicked
                             THEN <<>> ELSE req_chan
    /\ UNCHANGED <<pc, tmpl, params, input, op, result, execVars, fileVars, uiVars,
                   request_menu, responses, res_chan, ui, message_popup, sends>>

\* Variant: every response is addressed to the first request.
ResMessage_First(data, item) == [res |-> data, i |-> 1]

\* The pair (data, i) the worker puts on the response channel.
ResMessage(data, item) == [res |-> data, i |-> item.i]

\* handle_requests: res_tx.send((data, i)).await completes.
WorkerSend ==
    /\ worker.pc = "send"
    /\ Len(res_chan) < ResCapacity
    /\ res_chan' = Append(res_chan, ResMessage(worker.res, worker.item))
    /\ worker' = [pc |-> "recv"]
    /\ UNCHANGED <<pc, tmpl, params, input, op, result, execVars, fileVars, uiVars,
                   request_menu, responses, req_chan, ui, messages,
                   message_popup, sends>>

UINext ==
    \/ \E idx \in 1..NReq : OnEventSendRequest(idx)
    \/ SendCompletes
    \/ Update
    \/ OnKeyEvent

WorkerNext == WorkerRecv \/ WorkerExecute \/ WorkerSend

NextApp == UINext \/ WorkerNext

SpecApp == InitApp /\ [][NextApp]_vars

\* The application under the scheduling of the program: the worker task is
\* polled whenever it can run, a pending send is resumed once it can
\* complete, and the main loop keeps calling update.
SpecAppLive ==
    /\ InitApp
    /\ [][NextApp]_vars
    /\ WF_vars(WorkerNext)
    /\ WF_vars(SendCompletes)
    /\ WF_vars(Update)

\* The application with a user who dismisses every message popup: on top
\* of the scheduling of the program, a key is eventually pressed while a
\* popup is shown.
SpecAppDismiss == SpecAppLive /\ WF_vars(OnKeyEvent)

\* ------------------------------------------- claims on the application

\* The worker leaves execute without a response to send: the request failed.
ExecuteFails == worker.pc = "execute" /\ worker'.pc # "send"

\* C11: a failure while resolving or executing one request aborts only that
\* request: the worker goes back to receiving the next request, the
\* requests already waiting in the channel stay there, and the responses
\* stored in the panels are unchanged.
C11_FailureAbortsOnlyThatRequest ==
    [][ExecuteFails =>
           /\ worker'.pc = "recv"
           /\ req_chan' = req_chan
           /\ responses' = responses]_vars

\* The UI waits for room in the request channel.
UIBlocked == ui.pc = "send" /\ ~ReqClosed /\ Len(req_chan) = ReqCapacity

\* The worker waits for room in the response channel.
WorkerBlocked == worker.pc = "send" /\ Len(res_chan) = ResCapacity

\* C18: no state is reached in which the UI is blocked sending a request
\* while the worker is blocked sending a response.
C18_NoMutualBlock == ~(UIBlocked /\ WorkerBlocked)

\* C19: a panel that is Loading eventually leaves Loading, whether the
\* execution of its request succeeds or fails with an error value, as long
\* as the worker task lives and update can still be called.
C19_LoadingEnds ==
    \A i \in 1..NReq :
        (responses[i] = Loading /\ worker # Panicked)
            ~> \/ responses[i] # Loading
               \/ worker = Panicked
               \/ UIBlocked /\ WorkerBlocked

\* Panel i receives a response in this step.
Stores(i) ==
    /\ responses'[i] # responses[i]
    /\ responses'[i].state = "Received"

C22_HeadersNeverAbortWorker == worker # Panicked

\* A message is installed in the popup in this step.
Installs == message_popup' # message_popup /\ message_popup' # None

\* A message is installed only while no popup is shown, and it is the
\* oldest of the queue.
InstallsOldest ==
    Installs =>
        /\ message_popup = None
        /\ messages # <<>>
        /\ message_popup' = Head(messages)
        /\ messages' = Tail(messages)

\* The queue changes only by a push at its end or by an installation.
QueueKept ==
    messages' # messages =>
        \/ /\ Len(messages') = Len(messages) + 1
           /\ SubSeq(messages', 1, Len(messages)) = messages
           /\ message_popup' = message_popup
        \/ /\ Installs
           /\ messages' = Tail(messages)

\* C25: messages are shown one at a time in push order: a message is
\* installed only while no popup is shown, and it is the oldest of the
\* queue; the queue changes only by a push at its end or by that
\* installation, so no message is dropped or shown twice; and with update
\* running and popups dismissed the queue is eventually drained for good,
\* pushes of the UI and of the worker interleaved in any way.
C25_MessagesShownInPushOrder ==
    /\ [][InstallsOldest /\ QueueKept]_vars
    /\ <>[](messages = <<>> \/ (UIBlocked /\ WorkerBlocked))

\* A message of the worker is shown while a message of the UI waits.
C25_Witness ==
    /\ message_popup = Error("TransportError")
    /\ messages = <<Error("SendError")>>

\* ------------------------------------------- inputs of the file runs
\* A file is generated from what its author means: the variable definitions
\* and the request blocks, each field with its meaning (a method name, the
\* fragments of a value, the plain text of a query value and the quote it is
\* written in).  Written is the text of that file.

\* Query pairs on one request line.
MaxPairs == 2

\* Request blocks in one file.
MaxBlocks == 2

Block(method, url, query, form, version, headers, body) ==
    [method |-> method, url |-> url, query |-> query, form |-> form,
     version |-> version, headers |-> headers, body |-> body]

\* An unknown verb in capitals.
FOO == <<"F", "O", "O">>

\* A version that is none of the literals.
HTTP15 == HTTP \o <<"1", ".", "5">>

HTTP10 == HTTP \o <<"1", ".", "0">>

HTTP11 == HTTP \o <<"1", ".", "1">>

\* key, plain value, and how the value is written: bare, in single or in
\* double quotes (one of them around a value that holds the other quote),
\* or with an opening quote that is never closed.
QueryPairs ==
    [key : {<<"k">>, <<"j">>}, quote : {"bare"}, value : {<<"1">>}]
    \cup [key : {<<"k">>}, quote : {DQ}, value : {<<SP, "b">>}]
    \cup [key : {<<"j">>}, quote : {SQ}, value : {<<"&", "c">>}]
    \cup [key : {<<"j">>}, quote : {SQ}, value : {<<DQ, "d", DQ>>}]
    \cup [key : {<<"k">>}, quote : {"open"}, value : {<<"x">>}]

QueryForms == {"inline", "lines", "mixed"}

\* One block with every shape of request line, and with a header and a
\* body after every shape of query.
LineBlocks ==
    { Block(m, <<raw(<<"u">>)>>, q, f, v, <<>>, <<>>) :
        m \in {<<>>, POST, FOO},
        q \in SeqsUpTo(QueryPairs, MaxPairs),
        f \in QueryForms,
        v \in {<<>>, HTTP10, HTTP15} }
    \cup
    { Block(POST, <<raw(<<"u">>)>>, q, f, HTTP10,
            <<[key |-> <<"h">>, value |-> <<raw(<<"v">>)>>]>>, <<raw(<<"x">>)>>) :
        q \in SeqsUpTo(QueryPairs, MaxPairs),
        f \in QueryForms }

\* Blocks with references, headers and bodies, one of them malformed.
SampleBlocks ==
    { Block(<<>>, <<raw(<<"u">>)>>, <<>>, "inline", <<>>, <<>>, <<>>),
      Block(POST, <<var(<<"a">>)>>, <<>>, "inline", HTTP10,
            <<[key |-> <<"h">>, value |-> <<var(<<"b">>)>>]>>,
            <<raw(<<"x">>), var(<<"c">>)>>),
      Block(GET, <<raw(<<"u">>)>>, <<>>, "inline", HTTP11, <<>>,
            <<raw(<<"b", NL, NL, "b">>)>>),
      Block(FOO, <<raw(<<"u">>)>>, <<>>, "inline", <<>>, <<>>, <<>>),
      Block(<<>>, <<raw(<<"u">>)>>,
            <<[key |-> <<"k">>, quote |-> "bare", value |-> <<"1">>]>>,
            "inline", <<>>,
            <<[key |-> <<"h">>, value |-> <<raw(<<"v">>)>>]>>, <<>>) }

\* @a = foo, @b = aaa{{c}}, @c = 'q' (written in quotes)
Definitions ==
    { [name |-> <<"a">>, quote |-> "bare", value |-> <<raw(<<"f", "o", "o">>)>>],
      [name |-> <<"b">>, quote |-> "bare",
       value |-> <<raw(<<"a", "a", "a">>), var(<<"c">>)>>],
      [name |-> <<"c">>, quote |-> SQ, value |-> <<raw(<<"q">>)>>] }

\* Up to two definitions of different names.
DefinitionLists ==
    {d \in SeqsUpTo(Definitions, 2) : \A i, j \in DOMAIN d : i # j => d[i].name # d[j].name}

Sources ==
    [defs : {<<>>}, style : {"compact"}, blocks : {<<b>> : b \in LineBlocks}]
    \cup [defs : DefinitionLists, style : {"compact", "spaced"},
          blocks : SeqsUpTo(SampleBlocks, MaxBlocks)]

\* A value in the quotes it is written in.
Quoted(quote, text) ==
    IF quote = "bare" THEN text
    ELSE IF quote = "open" THEN <<DQ>> \o text
    ELSE <<quote>> \o text \o <<quote>>

RECURSIVE WrittenQuery(_, _, _)
\* The query from pair i on: ? before the first pair, & before the others;
\* a pair goes on a line of its own, indented, where the form says so.
WrittenQuery(query, form, i) ==
    IF i > Len(query) THEN <<>>
    ELSE (IF form = "lines" \/ (form = "mixed" /\ i > 1) THEN <<NL, TAB>> ELSE <<>>)
         \o (IF i = 1 THEN <<"?">> ELSE <<"&">>)
         \o query[i].key \o <<"=">> \o Quoted(query[i].quote, query[i].value)
         \o WrittenQuery(query, form, i + 1)

RECURSIVE WrittenHeaders(_, _)
WrittenHeaders(headers, i) ==
    IF i > Len(headers) THEN <<>>
    ELSE <<NL>> \o headers[i].key \o <<":", SP>>
         \o RenderFragments(headers[i].value, 1)
         \o WrittenHeaders(headers, i + 1)

\* The text of one block, without a line break at its end.
WrittenBlock(b) ==
    (IF b.method = <<>> THEN <<>> ELSE b.method \o <<SP>>)
    \o RenderFragments(b.url, 1)
    \o WrittenQuery(b.query, b.form, 1)
    \o (IF b.version = <<>> THEN <<>> ELSE <<SP>> \o b.version)
    \o WrittenHeaders(b.headers, 1)
    \o (IF b.body = <<>> THEN <<>> ELSE <<NL, NL>> \o RenderFragments(b.body, 1))

RECURSIVE WrittenDefs(_, _)
WrittenDefs(defs, i) ==
    IF i > Len(defs) THEN <<>>
    ELSE <<"@">> \o defs[i].name \o <<SP, "=", SP>>
         \o Quoted(defs[i].quote, RenderFragments(defs[i].value, 1)) \o <<NL>>
         \o WrittenDefs(defs, i + 1)

\* The separator line, with blank lines around it in the spaced style.
Separator(style) ==
    IF style = "spaced" THEN <<NL>> \o DELIM \o <<NL, NL>> ELSE DELIM \o <<NL>>

RECURSIVE WrittenBlocks(_, _, _)
WrittenBlocks(blocks, style, i) ==
    IF i > Len(blocks) THEN <<>>
    ELSE (IF i > 1 THEN Separator(style) ELSE <<>>)
         \o WrittenBlock(blocks[i]) \o <<NL>>
         \o WrittenBlocks(blocks, style, i + 1)

\* The text of the file.
Written(src) ==
    (IF src.style = "spaced" THEN <<NL>> ELSE <<>>)
    \o WrittenDefs(src.defs, 1)
    \o (IF src.defs # <<>> THEN Separator(src.style) ELSE <<>>)
    \o WrittenBlocks(src.blocks, src.style, 1)
    \o (IF src.style = "spaced" /\ src.blocks # <<>> THEN <<NL>> ELSE <<>>)

\* ------------------------------------------- the file state machine

InitParse ==
    /\ pc = "ready" /\ op = "none" /\ tmpl = <<>> /\ result = None
    /\ params = EmptyMap
    /\ NoExec
    /\ NoApp
    /\ NoUi
    /\ source \in Sources
    /\ input = Written(source)

\* main: parse(&file_content); on Err the error is printed and the process
\* exits with code 1, on Ok App::new builds the application.
Main ==
    /\ pc = "ready"
    /\ op' = "main"
    /\ result' = parse(input)
    /\ IF result'.kind = "Ok"
       THEN /\ pc' = "run"
            /\ request_menu' = result'.val.requests
            /\ responses' = [i \in DOMAIN result'.val.requests |-> Empty]
            /\ ui' = Idle
            /\ worker' = [pc |-> "recv"]
            /\ UNCHANGED <<req_chan, res_chan, messages, message_popup, sends>>
       ELSE /\ pc' = "exit(1)"
            /\ UNCHANGED appVars
    /\ UNCHANGED <<tmpl, params, input, execVars, fileVars, uiVars>>

\* The tables a parsed value is filled with: none of the names, all of them.
FillTables == {EmptyMap, [n \in Names |-> <<raw(<<"X">>)>>]}

\* The templates of the parsed file: the values of its variables, and the
\* url, header values and body of its requests.
FileTemplates(file) ==
    {file.variables[n] : n \in DOMAIN file.variables}
    \cup UNION { {file.requests[i].url, file.requests[i].body}
                 \cup {file.requests[i].headers[h] :
                          h \in DOMAIN file.requests[i].headers}
                 : i \in DOMAIN file.requests }

\* A value of the loaded file is resolved: value.fill(&table)
FillValue ==
    /\ pc = "run"
    /\ op = "main"
    /\ \E t \in FileTemplates(result.val), table \in FillTables :
          /\ tmpl' = t
          /\ params' = table
          /\ outcome' = fill(t, table, 1)
    /\ op' = "fill"
    /\ UNCHANGED <<pc, input, result, req, iter, appVars, fileVars, uiVars>>

NextParse == Main \/ FillValue

SpecParse == InitParse /\ [][NextParse]_vars

\* ------------------------------------------- what a source means

\* The block holds one of the defects: an unknown verb in capitals, a
\* version that is none of the literals, a quote that is never closed.
Defective(b) ==
    \/ b.method = FOO
    \/ b.version = HTTP15
    \/ \E i \in DOMAIN b.query : b.query[i].quote = "open"

WellFormed(src) == \A i \in DOMAIN src.blocks : ~Defective(src.blocks[i])

\* main has run.
Parsed == pc # "ready"

\* main has run and parse returned a file.
Loaded == Parsed /\ result.kind = "Ok"

MethodMeant(b) ==
    IF b.method = <<>> THEN "GET"
    ELSE IF b.method = GET THEN "GET"
    ELSE IF b.method = POST THEN "POST"
    ELSE "none"

VersionMeant(b) ==
    IF b.version = <<>> THEN "HTTP_11"
    ELSE IF b.version = HTTP10 THEN "HTTP_10"
    ELSE IF b.version = HTTP11 THEN "HTTP_11"
    ELSE "none"

\* The keys of the query and, for each key, the plain value of the last
\* pair that carries it.
QueryKeys(b) == {b.query[i].key : i \in DOMAIN b.query}

QueryMeant(b) ==
    [k \in QueryKeys(b) |->
        b.query[Greatest({i \in DOMAIN b.query : b.query[i].key = k}, 0)].value]

HeadersMeant(b) ==
    [k \in {b.headers[i].key : i \in DOMAIN b.headers} |->
        b.headers[Greatest({i \in DOMAIN b.headers : b.headers[i].key = k}, 0)].value]

VariablesMeant(src) ==
    [n \in {src.defs[i].name : i \in DOMAIN src.defs} |->
        src.defs[Greatest({i \in DOMAIN src.defs : src.defs[i].name = n}, 0)].value]

\* The names a value refers to.
Referred(fragments) ==
    {fragments[i].name : i \in {j \in DOMAIN fragments : fragments[j].kind = "Var"}}

\* The names the values of the source refer to.
SourceReferred(src) ==
    UNION ({Referred(src.defs[i].value) : i \in DOMAIN src.defs}
           \cup {Referred(src.blocks[i].url) \cup Referred(src.blocks[i].body)
                 \cup UNION {Referred(src.blocks[i].headers[h].value) :
                                h \in DOMAIN src.blocks[i].headers}
                 : i \in DOMAIN src.blocks})

\* ------------------------------------------- claims on the file

\* C12: parse returns an error and no HttpFile, or a complete HttpFile; it
\* returns the error exactly when a block of the file is malformed, however
\* many well-formed blocks and definitions stand before it; on an error the
\* process exits with code 1 and nothing of the application is built, on a
\* file the application is built on all its requests.
C12_ParseAtomic ==
    Parsed =>
        /\ result.kind = "Err" <=> ~WellFormed(source)
        /\ result.kind = "Err" =>
              /\ DOMAIN result = {"kind", "error"}
              /\ pc = "exit(1)"
              /\ NoApp
        /\ result.kind # "Err" =>
              /\ result.kind = "Ok"
              /\ pc = "run"
              /\ Len(result.val.requests) = Len(source.blocks)
              /\ DOMAIN result.val.variables = DOMAIN VariablesMeant(source)
              /\ request_menu = result.val.requests
              /\ DOMAIN responses = DOMAIN request_menu

\* The malformed block stands after definitions and a well-formed block.
C12_Witness ==
    /\ Parsed
    /\ result.kind = "Err"
    /\ source.defs # <<>>
    /\ Len(source.blocks) = 2
    /\ ~Defective(source.blocks[1])
    /\ Defective(source.blocks[2])

\* C13: a file whose values refer to names it does not define parses, and
\* every reference is kept as a Var fragment in its place (url, header
\* value, body, definition); only fill reports the first missing name, and
\* with every name given aaa{{c}} fills to aaaX.
C13_MissingIsLazy ==
    /\ (Parsed /\ WellFormed(source)) =>
          /\ result.kind = "Ok"
          /\ result.val.variables = VariablesMeant(source)
          /\ \A i \in DOMAIN source.blocks :
                /\ result.val.requests[i].url = source.blocks[i].url
                /\ result.val.requests[i].headers = HeadersMeant(source.blocks[i])
                /\ result.val.requests[i].body = source.blocks[i].body
    /\ op = "fill" =>
          /\ outcome.kind = "FillError" <=>
                (Referred(tmpl) # {} /\ params = EmptyMap)
          /\ outcome.kind = "FillError" =>
                \E i \in DOMAIN tmpl :
                    /\ tmpl[i] = var(outcome.missing_variable)
                    /\ \A j \in 1..(i - 1) : tmpl[j].kind # "Var"
          /\ outcome.kind # "FillError" => outcome.kind = "Ok"
          /\ (tmpl = <<raw(<<"a", "a", "a">>), var(<<"c">>)>> /\ params # EmptyMap) =>
                outcome = Ok(<<"a", "a", "a", "X">>)

\* A file that refers to a name it does not define was loaded.
C13_Witness ==
    /\ Loaded
    /\ op = "main"
    /\ SourceReferred(source) \ DOMAIN result.val.variables # {}
    /\ \E n \in DOMAIN result.val.variables :
          Referred(result.val.variables[n]) \ DOMAIN result.val.variables # {}

\* The definition aaa{{c}} was filled with c given.
C13_WitnessFilled ==
    /\ op = "fill"
    /\ tmpl = <<raw(<<"a", "a", "a">>), var(<<"c">>)>>
    /\ outcome = Ok(<<"a", "a", "a", "X">>)

\* The missing name was reported by fill.
C13_WitnessMissing ==
    /\ op = "fill"
    /\ <<"c">> \notin DOMAIN result.val.variables
    /\ outcome = FillError(<<"c">>)

\* C14: a request line without a method token gives GET, one without a
\* version token HTTP/1.1; a token that is written gives exactly that
\* method or version; the url is the same in all four cases.
C14_OptionalTokensDefault ==
    Loaded =>
        \A i \in DOMAIN source.blocks :
            /\ result.val.requests[i].method = Method(MethodMeant(source.blocks[i]))
            /\ result.val.requests[i].version = Version(VersionMeant(source.blocks[i]))
            /\ result.val.requests[i].url = source.blocks[i].url

\* Neither token is written.
C14_Witness ==
    /\ Loaded
    /\ Len(source.blocks) = 1
    /\ source.blocks[1].method = <<>>
    /\ source.blocks[1].version = <<>>
    /\ source.blocks[1].query # <<>>

\* The version is written, the method is not.
C14_WitnessVersionOnly ==
    /\ Loaded
    /\ Len(source.blocks) = 1
    /\ source.blocks[1].method = <<>>
    /\ source.blocks[1].version = HTTP10
    /\ result.val.requests[1].version = Version("HTTP_10")

\* The method is written, the version is not.
C14_WitnessMethodOnly ==
    /\ Loaded
    /\ Len(source.blocks) = 1
    /\ source.blocks[1].method = POST
    /\ source.blocks[1].version = <<>>
    /\ result.val.requests[1].method = Method("POST")

\* C15: a file of n blocks gives n requests, block i at index i, every
\* field as the block means it, so that the separator lines and the blank
\* lines around them are in no field; a file without blocks and
\* definitions gives no request and no variable, and no error.
C15_OneRequestPerBlock ==
    /\ Loaded =>
          /\ Len(result.val.requests) = Len(source.blocks)
          /\ \A i \in DOMAIN source.blocks :
                result.val.requests[i] =
                    [method  |-> Method(MethodMeant(source.blocks[i])),
                     url     |-> source.blocks[i].url,
                     query   |-> QueryMeant(source.blocks[i]),
                     version |-> Version(VersionMeant(source.blocks[i])),
                     headers |-> HeadersMeant(source.blocks[i]),
                     body    |-> source.blocks[i].body]
    /\ (Parsed /\ source.blocks = <<>> /\ source.defs = <<>>) =>
          result = Ok(HttpFile(<<>>, EmptyMap))

\* Two different blocks, with blank lines around the separator.
C15_Witness ==
    /\ Loaded
    /\ source.style = "spaced"
    /\ Len(source.blocks) = 2
    /\ source.blocks[1] # source.blocks[2]
    /\ source.blocks[1].body # <<>>
    /\ source.defs # <<>>

\* The file holds nothing but a line break.
C15_WitnessEmpty ==
    /\ Loaded
    /\ input = <<NL>>
    /\ result.val.requests = <<>>

\* The source with every query written on the request line.
Inline(src) ==
    [src EXCEPT !.blocks = [i \in DOMAIN src.blocks |->
                               [src.blocks[i] EXCEPT !.form = "inline"]]]

\* C16: a query written on continuation lines (every pair on a line of
\* its own, or the first pair on the url line and the others below it)
\* parses to what the same query written on the request line parses to,
\* an error included: the url, every pair of the query, the version after
\* the last pair and the headers are the ones that were written.
C16_MultilineQuerySame ==
    /\ Parsed => result = parse(Written(Inline(source)))
    /\ Loaded =>
          \A i \in DOMAIN source.blocks :
              source.blocks[i].form # "inline" =>
                  /\ result.val.requests[i].url = source.blocks[i].url
                  /\ result.val.requests[i].query = QueryMeant(source.blocks[i])
                  /\ result.val.requests[i].version =
                        Version(VersionMeant(source.blocks[i]))
                  /\ result.val.requests[i].headers = HeadersMeant(source.blocks[i])

\* Two pairs on lines of their own, the version after the last one.
C16_Witness ==
    /\ Loaded
    /\ Len(source.blocks) = 1
    /\ source.blocks[1].form = "lines"
    /\ Len(source.blocks[1].query) = 2
    /\ source.blocks[1].version = HTTP10
    /\ source.blocks[1].headers # <<>>
    /\ DOMAIN result.val.requests[1].query = {<<"k">>, <<"j">>}
    /\ input # Written(Inline(source))

\* The first pair on the url line, the second below it.
C16_WitnessMixed ==
    /\ Loaded
    /\ Len(source.blocks) = 1
    /\ source.blocks[1].form = "mixed"
    /\ Len(source.blocks[1].query) = 2
    /\ input # Written(Inline(source))

\* C17: the query map has one entry for every key of the request line, its
\* value the text after = without the quotes around it: a space at the
\* start and an & between the quotes are part of the value; of two pairs
\* with the same key the later one gives the value.
C17_QueryValuesUnquoted ==
    Loaded =>
        \A i \in DOMAIN source.blocks :
            /\ DOMAIN result.val.requests[i].query = QueryKeys(source.blocks[i])
            /\ \A k \in QueryKeys(source.blocks[i]) :
                  \E j \in DOMAIN source.blocks[i].query :
                      /\ source.blocks[i].query[j].key = k
                      /\ \A l \in DOMAIN source.blocks[i].query :
                            source.blocks[i].query[l].key = k => l <= j
                      /\ result.val.requests[i].query[k] =
                            source.blocks[i].query[j].value

\* " b" in double quotes and '&c' in single quotes on one request line.
C17_Witness ==
    /\ Loaded
    /\ Len(source.blocks) = 1
    /\ source.blocks[1].form = "inline"
    /\ Len(source.blocks[1].query) = 2
    /\ source.blocks[1].query[1].quote = DQ
    /\ source.blocks[1].query[2].quote = SQ
    /\ result.val.requests[1].query =
          (<<"k">> :> <<SP, "b">>) @@ (<<"j">> :> <<"&", "c">>)

\* Two pairs with the same key.
C17_WitnessSameKey ==
    /\ Loaded
    /\ Len(source.blocks) = 1
    /\ Len(source.blocks[1].query) = 2
    /\ source.blocks[1].query[1].key = source.blocks[1].query[2].key
    /\ source.blocks[1].query[1].value # source.blocks[1].query[2].value

\* ------------------------------------------------- keys and events
\* The UI task alone: the keys of the terminal become events of EVENT_QUEUE,
\* App::on_event handles them one at a time.  The selected request and the
\* entries of the menus are positions as before, one more than the usize
\* index of the program.

\* Keys pressed and inputs asked for in one run.
MaxEvents == 3

\* u16::MAX, where saturating_add stops.
u16_MAX == 65535

\* The position that stands for the index usize::MAX, which is what
\* `self.items.len() - 1` wraps to on an empty menu when the build has no
\* overflow checks: one more than usize::MAX is 0 modulo 2^64.
Wrapped == 0

\* KeyCode::Enter, KeyCode::Esc and the characters without modifiers.
Keys == {"Enter", "Esc", "j", "k", "s", "t", "q"}

\* KeyCode::Char(_)
IsChar(key) == key \notin {"Enter", "Esc"}

\* FocusState
RequestsList == "RequestsList"
ResponsePanel == "ResponsePanel"

\* SaveOption::iterator()
SaveOptions == <<"All", "Body">>

\* HandleSuccess
Consumed == "Consumed"
Ignored == "Ignored"

\* Message::Info
Info(text) == [kind |-> "Info", text |-> text]

\* Event
Key(key) == [kind |-> "Key", key |-> key]
Focus(focus) == [kind |-> "Focus", focus |-> focus]
Save(value, option) == [kind |-> "Save", value |-> value, option |-> option]
NewInput(content, option) ==
    [kind |-> "NewInput", content |-> content, option |-> option]
InputConfirm == [kind |-> "InputConfirm"]
InputCancel == [kind |-> "InputCancel"]
SendRequest(idx) == [kind |-> "SendRequest", idx |-> idx]

\* Variant: the event is put at the end the queue is polled from.
emit_Back(queue, event) == Append(queue, event)

\* Event::emit: EVENT_QUEUE.push_front(event)
emit(queue, event) == <<event>> \o queue

\* Event::poll on a queue that is not empty: EVENT_QUEUE.pop_back(), the
\* event taken and the queue left.
poll(queue) ==
    [event |-> queue[Len(queue)], rest |-> SubSeq(queue, 1, Len(queue) - 1)]

\* ----------------------------------------------------------- the menu
\* A menu is its idx, the number of its items and whether it has a confirm
\* callback.

\* Menu::new
Menu_new(len) == [idx |-> 1, len |-> len, callback |-> FALSE]

\* Menu::with_confirm_callback
with_confirm_callback(menu) == [menu EXCEPT !.callback = TRUE]

\* An index into items or responses is in range.
InRange(idx, len) == idx \in 1..len

\* Menu::next: (idx + 1) % items.len(); the remainder by zero panics in
\* every build.
Menu_next(menu) ==
    IF menu.len = 0
    THEN [kind |-> "Panic", why |-> "remainder by zero"]
    ELSE [kind |-> Consumed, menu |-> [menu EXCEPT !.idx = (menu.idx % menu.len) + 1]]

\* Menu::previous: items.len() - 1 from idx 0, idx - 1 otherwise.  On an
\* empty menu the subtraction panics with overflow checks and wraps
\* without them; from the wrapped index every further step back stays out
\* of range.
Menu_previous(menu, checks) ==
    IF menu.idx = 1
    THEN IF menu.len > 0
         THEN [kind |-> Consumed, menu |-> [menu EXCEPT !.idx = menu.len]]
         ELSE IF checks
         THEN [kind |-> "Panic", why |-> "subtract with overflow"]
         ELSE [kind |-> Consumed, menu |-> [menu EXCEPT !.idx = Wrapped]]
    ELSE IF menu.idx = Wrapped
    THEN [kind |-> Consumed, menu |-> menu]
    ELSE [kind |-> Consumed, menu |-> [menu EXCEPT !.idx = menu.idx - 1]]

\* Menu::on_event on Enter: the callback is called with selected(), which
\* indexes items[idx]; the key is consumed with or without a callback.
Menu_confirm(menu) ==
    IF menu.callback /\ ~InRange(menu.idx, menu.len)
    THEN [kind |-> "Panic", why |-> "index out of bounds"]
    ELSE [kind |-> Consumed, menu |-> menu]

\* Menu::on_event
Menu_on_event(menu, key, checks) ==
    IF key = "j" THEN Menu_next(menu)
    ELSE IF key = "k" THEN Menu_previous(menu, checks)
    ELSE IF key = "Enter" THEN Menu_confirm(menu)
    ELSE [kind |-> Ignored, menu |-> menu]

\* ----------------------------------------------------- the components
\* What a component answers to a key: the HandleSuccess or the error, the
\* component after the key, the events it emitted and the messages it
\* pushed, both in the order of the calls.

Answer(kind, component, events, pushed) ==
    [kind |-> kind, component |-> component, events |-> events,
     pushed |-> pushed]

\* Variant: the dialog leaves the key to the components under it.
MessageDialog_on_event_Ignored(key) == Ignored

\* MessageDialog::on_event
MessageDialog_on_event(key) == Consumed

\* Input::handle_event on a character: it is inserted at the cursor.
handle_event(field, key) ==
    [field EXCEPT
        !.value = SubSeq(@, 1, field.cursor) \o <<key>>
                  \o SubSeq(@, field.cursor + 1, Len(@)),
        !.cursor = @ + 1]

\* InputComponent::from(content).with_cursor(0) with the confirm callback
\* of a file name.
InputComponent(content, option) ==
    [value |-> content, cursor |-> 0, option |-> option]

\* InputComponent::on_event with the callbacks of InputBuilder::build and
\* of Default: Enter emits InputConfirm and then Save, Esc emits
\* InputCancel.
InputComponent_on_event(field, key) ==
    IF IsChar(key)
    THEN Answer(Consumed, handle_event(field, key), <<>>, <<>>)
    ELSE IF key = "Enter"
    THEN Answer(Consumed, field,
                <<InputConfirm, Save(field.value, field.option)>>, <<>>)
    ELSE IF key = "Esc"
    THEN Answer(Consumed, field, <<InputCancel>>, <<>>)
    ELSE Answer(Ignored, field, <<>>, <<>>)

\* ResponsePanel::default
ResponsePanel_default ==
    [state |-> "Empty", scroll |-> 0, input_popup |-> None,
     save_option |-> "All", save_menu |-> None, show_raw |-> FALSE]

\* ResponsePanel::to_string and ResponsePanel::body as far as their
\* Result goes.
HasResponse(panel) == panel.state = "Received"

\* ResponsePanel::on_event, the keys left by the input of the output path:
\* Enter writes the file, Esc closes the popup.
PanelPathKeys(panel, key) ==
    IF key = "Enter"
    THEN IF HasResponse(panel)
         THEN Answer(Consumed, [panel EXCEPT !.input_popup = None], <<>>,
                     <<Info("Saved to")>>)
         ELSE Answer("Err", panel, <<>>, <<>>)
    ELSE Answer(Consumed, [panel EXCEPT !.input_popup = None], <<>>, <<>>)

\* ResponsePanel::on_event, the match on the key code that ends it.
PanelKeys(panel, key) ==
    IF key = "j"
    THEN Answer(Consumed,
                [panel EXCEPT !.scroll = IF @ = u16_MAX THEN @ ELSE @ + 1],
                <<>>, <<>>)
    ELSE IF key = "k"
    THEN Answer(Consumed,
                [panel EXCEPT !.scroll = IF @ = 0 THEN @ ELSE @ - 1],
                <<>>, <<>>)
    ELSE IF key = "s"
    THEN Answer(Consumed,
                [panel EXCEPT !.save_menu = Menu_new(Len(SaveOptions))],
                <<>>, <<>>)
    ELSE IF key = "t"
    THEN Answer(Consumed, [panel EXCEPT !.show_raw = ~@], <<>>, <<>>)
    ELSE IF key = "Esc"
    THEN Answer(Consumed, panel, <<Focus(RequestsList)>>, <<>>)
    ELSE Answer(Ignored, panel, <<>>, <<>>)

\* ResponsePanel::on_event while the save menu is open, after the menu
\* answered m: the menu consumes j, k and Enter; Esc closes it; any other
\* key goes on to the last match.  The menu of the save options has no
\* confirm callback and two items.
PanelMenuKeys(panel, key, m) ==
    IF m.kind = Consumed
    THEN Answer(Consumed, [panel EXCEPT !.save_menu = m.menu], <<>>, <<>>)
    ELSE IF key = "Enter"
    THEN Answer(Consumed,
                [panel EXCEPT !.save_option = SaveOptions[m.menu.idx],
                              !.save_menu = None,
                              !.input_popup = [value |-> <<>>, cursor |-> 0]],
                <<>>, <<>>)
    ELSE IF key = "Esc"
    THEN Answer(Consumed, [panel EXCEPT !.save_menu = None], <<>>, <<>>)
    ELSE PanelKeys(panel, key)

\* ResponsePanel::on_event below the input of the output path.
PanelBelowPath(panel, key) ==
    IF panel.save_menu # None
    THEN PanelMenuKeys(panel, key, Menu_on_event(panel.save_menu, key, TRUE))
    ELSE PanelKeys(panel, key)

\* ResponsePanel::on_event
ResponsePanel_on_event(panel, key) ==
    IF panel.input_popup # None
    THEN IF IsChar(key)
         THEN Answer(Consumed,
                     [panel EXCEPT !.input_popup = handle_event(@, key)],
                     <<>>, <<>>)
         ELSE PanelPathKeys(panel, key)
    ELSE PanelBelowPath(panel, key)

\* -------------------------------------------------- the handlers of App
\* A handler takes the App and the two queues as one record and gives them
\* back: idx of request_menu, focus, should_exit, the popups, responses,
\* messages (MESSAGES), queue (EVENT_QUEUE) with the count of the events
\* emitted so far, the requests handed to req_tx.send, and fault, the panic
\* that ended the handler.

\* The events of a handler are emitted in the order of the calls, each
\* with its number in the order of emission.
RECURSIVE EmitAll(_, _)
EmitAll(app, events) ==
    IF events = <<>>
    THEN app
    ELSE EmitAll([app EXCEPT
                     !.queue = emit(@, [event |-> Head(events),
                                        seq |-> app.emitted + 1]),
                     !.emitted = @ + 1],
                 Tail(events))

\* The messages of a handler are pushed in the order of the calls.
RECURSIVE PushAll(_, _)
PushAll(queue, pushed) ==
    IF pushed = <<>>
    THEN queue
    ELSE PushAll(push_message(queue, Head(pushed)), Tail(pushed))

\* The handler panics.
Fault(app, why) == [app EXCEPT !.fault = [kind |-> "Panic", why |-> why]]

\* App::on_key_event, the last match: q and Q ask for the exit.
ExitKeys(app, key) ==
    IF key = "q" THEN [app EXCEPT !.should_exit = TRUE] ELSE app

\* App::on_key_event after request_menu.on_event answered m; on Enter the
\* confirm callback of App::new has emitted Focus(ResponsePanel).
AfterMenu(app, key, m) ==
    IF m.kind = "Panic"
    THEN Fault(app, m.why)
    ELSE IF m.kind = Consumed
    THEN EmitAll([app EXCEPT !.idx = m.menu.idx],
                 IF key = "Enter" THEN <<Focus(ResponsePanel)>> ELSE <<>>)
    ELSE ExitKeys(app, key)

\* App::on_key_event after responses[request_menu.idx()].on_event
\* answered a: an Err becomes a message.
AfterPanel(app, key, a) ==
    IF a.kind = "Err"
    THEN [app EXCEPT
             !.messages = push_message(@, Error("Request not sent"))]
    ELSE IF a.kind = Consumed
    THEN EmitAll([app EXCEPT !.responses[app.idx] = a.component,
                             !.messages = PushAll(@, a.pushed)],
                 a.events)
    ELSE ExitKeys(app, key)

\* request_menu as App::new builds it.
RequestMenu(app) ==
    with_confirm_callback([Menu_new(app.items) EXCEPT !.idx = app.idx])

\* App::on_key_event, the key goes to the component in focus.
KeyToFocus(app, key) ==
    IF app.focus = RequestsList
    THEN AfterMenu(app, key, Menu_on_event(RequestMenu(app), key, app.checks))
    ELSE IF ~InRange(app.idx, Len(app.responses))
    THEN Fault(app, "index out of bounds")
    ELSE AfterPanel(app, key,
                    ResponsePanel_on_event(app.responses[app.idx], key))

\* App::on_key_event after input_popup.on_event answered a.
AfterInput(app, key, a) ==
    IF a.kind = Consumed
    THEN EmitAll([app EXCEPT !.input_popup = a.component], a.events)
    ELSE KeyToFocus(app, key)

\* App::on_key_event below the message popup.
KeyBelowMessage(app, key) ==
    IF app.input_popup # None
    THEN AfterInput(app, key, InputComponent_on_event(app.input_popup, key))
    ELSE KeyToFocus(app, key)

\* App::on_key_event
on_key_event(app, key) ==
    IF app.message_popup # None /\ MessageDialog_on_event(key) = Consumed
    THEN [app EXCEPT !.message_popup = None]
    ELSE KeyBelowMessage(app, key)

\* ResponsePanel::save_all and ResponsePanel::save_body as far as their
\* Result goes: without a response there is nothing to write.
save(panel) == IF HasResponse(panel) THEN "Ok" ELSE "Err"

\* App::on_event(Event::Save(..))
OnSave(app) ==
    IF ~InRange(app.idx, Len(app.responses))
    THEN Fault(app, "index out of bounds")
    ELSE IF save(app.responses[app.idx]) = "Err"
    THEN [app EXCEPT
             !.messages = push_message(@, Error("Request not sent"))]
    ELSE app

\* App::on_event(Event::SendRequest(idx)) up to req_tx.send
OnSendRequest(app, idx) ==
    IF ~InRange(idx, Len(app.responses))
    THEN Fault(app, "index out of bounds")
    ELSE [app EXCEPT !.responses[idx].state = "Loading",
                     !.sent = Append(@, idx)]

\* App::on_event
on_event(app, e) ==
    IF e.kind = "Focus" THEN [app EXCEPT !.focus = e.focus]
    ELSE IF e.kind = "Key" THEN on_key_event(app, e.key)
    ELSE IF e.kind = "Save" THEN OnSave(app)
    ELSE IF e.kind = "NewInput"
    THEN [app EXCEPT !.input_popup = InputComponent(e.content, e.option)]
    ELSE IF e.kind \in {"InputCancel", "InputConfirm"}
    THEN [app EXCEPT !.input_popup = None]
    ELSE IF e.kind = "SendRequest" THEN OnSendRequest(app, e.idx)
    ELSE app

\* ------------------------------------------- the key state machine

\* A file without requests and a file with NReq of them.
UiFiles ==
    { <<>>,
      [i \in 1..NReq |-> [url |-> <<var(X)>>, query |-> EmptyMap,
                          headers |-> EmptyMap, body |-> <<>>]] }

\* App::new on a file parse accepted, built with or without overflow
\* checks; the worker task waits for the first request.
InitUi ==
    /\ pc = "ready" /\ op = "none" /\ tmpl = <<>> /\ input = <<>> /\ result = None
    /\ NoExec
    /\ NoFile
    /\ params = AppParams
    /\ request_menu \in UiFiles
    /\ responses = [i \in 1..Len(request_menu) |-> ResponsePanel_default]
    /\ req_chan = <<>>
    /\ res_chan = <<>>
    /\ ui = Idle
    /\ worker = [pc |-> "recv"]
    /\ messages = <<>>
    /\ message_popup = None
    /\ sends = <<>>
    /\ tui \in { [idx |-> 1, focus |-> RequestsList, should_exit |-> FALSE,
                  input_popup |-> None, checks |-> c, fault |-> None] :
                 c \in BOOLEAN }
    /\ event_queue = <<>>
    /\ trace = [emitted |-> 0, handled |-> 0, asked |-> 0, last |-> None]

\* The UI task is in its loop: no handler panicked, no key asked for the
\* exit, no send is awaited.
Running == tui.fault = None /\ ~tui.should_exit /\ ui = Idle

\* The App and the queues as the handlers take them, the queue being what
\* Event::poll left.
AppNow(queue) ==
    [idx |-> tui.idx, focus |-> tui.focus, should_exit |-> tui.should_exit,
     input_popup |-> tui.input_popup, checks |-> tui.checks,
     fault |-> tui.fault, items |-> Len(request_menu),
     message_popup |-> message_popup, responses |-> responses,
     messages |-> messages, queue |-> queue, emitted |-> trace.emitted,
     sent |-> <<>>]

\* The variables of the App and of the queues after a handler left r.
Commit(r) ==
    /\ tui' = [idx |-> r.idx, focus |-> r.focus, should_exit |-> r.should_exit,
               input_popup |-> r.input_popup, checks |-> r.checks,
               fault |-> r.fault]
    /\ message_popup' = r.message_popup
    /\ responses' = r.responses
    /\ messages' = r.messages
    /\ event_queue' = r.queue

\* The queue and the count of the emitted events after Event::emit(e),
\* called by the environment of the handlers.
Emitted(e) ==
    /\ Commit(EmitAll(AppNow(event_queue), <<e>>))
    /\ trace' = [trace EXCEPT !.emitted = @ + 1, !.asked = @ + 1]

\* The terminal reads a key: Event::emit(Event::parse(event)).
KeyPressed(key) ==
    /\ Running
    /\ trace.asked < MaxEvents
    /\ Emitted(Key(key))
    /\ UNCHANGED <<pc, tmpl, params, input, op, result, execVars, fileVars,
                   request_menu, req_chan, res_chan, ui, worker, sends>>

\* A component asks for the name of the file to save to:
\* Event::emit(Event::NewInput(..)) with InputType::FileName(option).
InputRequested(option) ==
    /\ Running
    /\ trace.asked < MaxEvents
    /\ Emitted(NewInput(<<>>, option))
    /\ UNCHANGED <<pc, tmpl, params, input, op, result, execVars, fileVars,
                   request_menu, req_chan, res_chan, ui, worker, sends>>

\* req_tx.send((request, idx)).await for the requests of r, as in
\* OnEventSendRequest.
SendAll(r) ==
    IF r.sent = <<>>
    THEN UNCHANGED <<req_chan, ui, sends>>
    ELSE /\ sends' = Append(sends, r.sent[1])
         /\ LET item == [req |-> request_menu[r.sent[1]], i |-> r.sent[1],
                         seq |-> Len(sends) + 1]
            IN  IF Len(req_chan) < ReqCapacity
                THEN req_chan' = Append(req_chan, item) /\ UNCHANGED ui
                ELSE ui' = [pc |-> "send", item |-> item] /\ UNCHANGED req_chan

\* One event is taken from the queue and handled: p is what Event::poll
\* gave, r what App::on_event left.
Handled(p, r) ==
    /\ Commit(r)
    /\ SendAll(r)
    /\ trace' = [trace EXCEPT
                    !.emitted = r.emitted,
                    !.handled = p.event.seq,
                    !.last = [event |-> p.event.event,
                              message |-> message_popup # None,
                              input |-> tui.input_popup # None]]

\* The loop of the UI task: Event::poll() and App::on_event on what it
\* gave.
HandleEvent ==
    /\ Running
    /\ event_queue # <<>>
    /\ \E p \in {poll(event_queue)} :
          \E r \in {on_event(AppNow(p.rest), p.event.event)} : Handled(p, r)
    /\ UNCHANGED <<pc, tmpl, params, input, op, result, execVars, fileVars,
                   request_menu, res_chan, worker>>

\* App::draw: the panel of the selected request is rendered.
Draw ==
    /\ Running
    /\ tui' = IF InRange(tui.idx, Len(responses))
              THEN tui
              ELSE [tui EXCEPT !.fault = [kind |-> "Panic",
                                          why |-> "index out of bounds"]]
    /\ UNCHANGED <<pc, tmpl, params, input, op, result, execVars, appVars,
                   fileVars, event_queue, trace>>

NextUi ==
    \/ \E key \in Keys : KeyPressed(key)
    \/ \E option \in {"All", "Body"} : InputRequested(option)
    \/ HandleEvent
    \/ Update
    \/ Draw

SpecUi == InitUi /\ [][NextUi]_vars

\* ------------------------------------------- claims on keys and events

\* The queue holds the events emitted and not yet handled, each once, the
\* newest first: Event::poll gives them in the order of emission.
InEmitOrder ==
    /\ Len(event_queue) = trace.emitted - trace.handled
    /\ \A i \in 1..Len(event_queue) :
          event_queue[i].seq = trace.emitted - i + 1

\* The event handled just before the one at place i of the queue, once
\* the events in between are handled, is an InputConfirm.
AfterInputConfirm(i) ==
    IF i < Len(event_queue)
    THEN event_queue[i + 1].event.kind = "InputConfirm"
    ELSE trace.last # None /\ trace.last.event.kind = "InputConfirm"

\* C26: the event queue is first in, first out: the events are polled in
\* the order in which they were emitted, none lost and none twice; so the
\* InputConfirm of a confirmed input is handled right before the Save
\* emitted after it, and the input popup is closed when the Save is
\* handled.
C26_EventQueueIsFifo ==
    /\ InEmitOrder
    /\ \A i \in 1..Len(event_queue) :
          event_queue[i].event.kind = "Save" => AfterInputConfirm(i)
    /\ (trace.last # None /\ trace.last.event.kind = "Save")
          => ~trace.last.input

\* A Save was handled after its InputConfirm while a key pressed later
\* still waits in the queue.
C26_Witness ==
    /\ trace.last # None
    /\ trace.last.event.kind = "Save"
    /\ tui.fault = None
    /\ Len(event_queue) = 1
    /\ event_queue[1].event.kind = "Key"

\* A step in which a key is polled and handled while a message popup is
\* shown.
KeyOnMessagePopup ==
    /\ message_popup # None
    /\ event_queue # <<>>
    /\ poll(event_queue).event.event.kind = "Key"
    /\ trace'.handled = poll(event_queue).event.seq

\* C24: while a message popup is shown any key dismisses it and goes no
\* further: the popup is closed, and the selected request, the focus,
\* should_exit, the input popup, the panels with their scroll positions and
\* the waiting messages are as before the key, and no event was emitted.
C24_KeyDismissesMessagePopup ==
    [][KeyOnMessagePopup =>
           /\ message_popup' = None
           /\ tui' = tui
           /\ responses' = responses
           /\ messages' = messages
           /\ event_queue' = poll(event_queue).rest]_vars

\* The key q was handled while a message popup was shown: the popup is
\* gone and the exit was not asked for.
C24_Witness ==
    /\ trace.last # None
    /\ trace.last.event = Key("q")
    /\ trace.last.message
    /\ message_popup = None
    /\ ~tui.should_exit
    /\ tui.fault = None

\* C21: the App is safe for every file parse accepts, one without
\* requests included: there is a panel for every item of the menu, and no
\* handler and no draw indexes responses or items out of range or computes
\* an index from an empty menu, that is, none of them panics.
C21_IndicesInRange ==
    /\ Len(responses) = Len(request_menu)
    /\ tui.fault = None

\* A step in which Enter is polled and handled while the response panel
\* is in focus and no popup and no save menu is open.
EnterOnResponsePanel ==
    /\ tui.focus = ResponsePanel
    /\ message_popup = None
    /\ tui.input_popup = None
    /\ InRange(tui.idx, Len(responses))
    /\ responses[tui.idx].save_menu = None
    /\ responses[tui.idx].input_popup = None
    /\ event_queue # <<>>
    /\ poll(event_queue).event.event = Key("Enter")
    /\ trace'.handled = poll(event_queue).event.seq

\* The request at idx is on its way after the step: a SendRequest for it
\* waits in the queue, or its panel is Loading already.
Sending(idx) ==
    \/ \E i \in 1..Len(event_queue') :
          event_queue'[i].event = SendRequest(idx)
    \/ responses'[idx].state = "Loading"

\* C23: Enter on the response panel in focus, with no save menu and no
\* popup open, sends the selected request: the key makes a SendRequest for
\* the selected index, whose handling sets the panel to Loading and puts
\* the request on the request channel.
C23_EnterSendsRequest ==
    [][EnterOnResponsePanel => Sending(tui.idx)]_vars

====
